---- MODULE Spec2Model ----
(***************************************************************************)
(* Call-record reconciliation of the outbound-calling dashboard: the run   *)
(* store and the pending-contact store of src/lib/store.ts, the payload    *)
(* normalisation of src/lib/happyrobot.ts and the webhook, pre-call and    *)
(* call-result route handlers that drive them.                             *)
(***************************************************************************)
EXTENDS Integers, Sequences, FiniteSets, TLC

VARIABLES
    webhookStore,      \* global.__webhookRuns: Map<string, ParsedCall>
    pendingCallStore,  \* global.__pendingCalls: PendingCall[]
    now,               \* Date.now(), in ms
    handlers,          \* the webhook POST invocations suspended at fetchRunById
    regs,              \* number of pre-call registrations so far
    ticks,             \* number of clock advances so far
    used,              \* number of webhook, legacy and report requests so far
    last,              \* observation of the last operation (not program state)
    claimLog,          \* observation: the pending entries handed out by pops
    run,               \* the raw payload handed to parseRun (pure-function runs)
    parsed,            \* the outcome of parseRun on it
    order              \* the key order of global.__webhookRuns (insertion order)

vars == <<webhookStore, pendingCallStore, now, handlers, regs, ticks, used,
          last, claimLog, run, parsed, order>>

(***************************************************************************)
(* JavaScript values                                                       *)
(***************************************************************************)
Undef == "undefined"

\* truthiness of a string-or-undefined value
Truthy(v) == v # "" /\ v # Undef

\* a || b
Or(a, b) == IF Truthy(a) THEN a ELSE b

\* obj.k, undefined when the key is absent
Get(r, k) == IF k \in DOMAIN r THEN r[k] ELSE Undef

\* { ...a, ...b }: every own key of b, undefined-valued ones too, overrides a
Spread(a, b) ==
    [k \in (DOMAIN a) \cup (DOMAIN b) |-> IF k \in DOMAIN b THEN b[k] ELSE a[k]]

Range(s) == {s[i] : i \in 1..Len(s)}

\* s with the element at index i removed: s.splice(i, 1)
RemoveAt(s, i) == [j \in 1..(Len(s) - 1) |-> IF j < i THEN s[j] ELSE s[j + 1]]

(***************************************************************************)
(* Bounds of the model                                                     *)
(***************************************************************************)
MaxRegs == 2        \* pre-call registrations in Spec
MaxTicks == 1       \* clock advances in Spec
MaxWebhooks == 2    \* CloudEvents deliveries in Spec
MaxLegacy == 1      \* legacy deliveries in Spec
MaxReports == 1     \* result reports in Spec
MaxTTLRegs == 3     \* registrations in SpecTTL
MaxTTLTicks == 3    \* clock advances in SpecTTL
MaxCapRegs == 22    \* registrations in SpecCap
MaxCapTicks == 2    \* clock advances in SpecCap

(***************************************************************************)
(* Pending call store                                                      *)
(***************************************************************************)
MaxPending == 20
DefaultTTL == 120000

\* the contacts a pre-call request may carry
PendingInputs ==
    {[phone |-> "+34600000000", contactName |-> "Ana", companyName |-> Undef],
     [phone |-> "+34600000001", contactName |-> Undef, companyName |-> "Levante"],
     [phone |-> "", contactName |-> "Luis", companyName |-> Undef]}

MainPendingInputs ==
    {[phone |-> "+34600000000", contactName |-> "Ana", companyName |-> Undef],
     [phone |-> "+34600000001", contactName |-> Undef, companyName |-> "Levante"]}

\* the clock advances between two requests
Deltas == {1, 119999}

StorePendingCallKeepFirst(store, data, t, uid) ==
    LET pushed == Append(store, Spread(data, [storedAt |-> t, uid |-> uid]))
    IN  IF Len(pushed) > MaxPending THEN SubSeq(pushed, 1, MaxPending) ELSE pushed

\* storePendingCall: push, then keep the last 20. uid stands for the identity of
\* the pushed object.
storePendingCall(store, data, t, uid) ==
    LET pushed == Append(store, Spread(data, [storedAt |-> t, uid |-> uid]))
    IN  IF Len(pushed) > MaxPending
        THEN SubSeq(pushed, Len(pushed) - MaxPending + 1, Len(pushed))
        ELSE pushed

PopStepNoTTL(store, t, ttlMs, best, i) ==
    IF best = 0 THEN i
    ELSE IF store[i].storedAt > store[best].storedAt THEN i ELSE best

PopStepFirst(store, t, ttlMs, best, i) ==
    IF t - store[i].storedAt > ttlMs THEN best
    ELSE IF best = 0 THEN i
    ELSE best

\* the reducer of popRecentPendingCall; index 0 stands for -1
PopStep(store, t, ttlMs, best, i) ==
    IF t - store[i].storedAt > ttlMs THEN best
    ELSE IF best = 0 THEN i
    ELSE IF store[i].storedAt > store[best].storedAt THEN i ELSE best

RECURSIVE PopReduce(_, _, _, _, _)
PopReduce(store, t, ttlMs, best, i) ==
    IF i > Len(store) THEN best
    ELSE PopReduce(store, t, ttlMs, PopStep(store, t, ttlMs, best, i), i + 1)

PopKeep(store, t, ttlMs) ==
    LET idx == PopReduce(store, t, ttlMs, 0, 1)
    IN  [idx |-> idx, store |-> store]

\* popRecentPendingCall: idx = 0 is the null result; otherwise the entry
\* store[idx] of the store before the call is returned and spliced out
popRecentPendingCall(store, t, ttlMs) ==
    LET idx == PopReduce(store, t, ttlMs, 0, 1)
    IN  [idx |-> idx,
         store |-> IF idx = 0 THEN store ELSE RemoveAt(store, idx)]

(***************************************************************************)
(* Payload normalisation (src/lib/happyrobot.ts)                           *)
(***************************************************************************)
\* undefined, for the number-typed fields (duration, timestamp, completedAt)
NoNum == -1

\* Raw payload objects are functions from the keys they own to their values;
\* an array is a sequence and an absent array behaves like an empty one
\* wherever the code only iterates over it.
Has(o, k) == k \in DOMAIN o
EmptyObj == <<>>

\* o.k for an array-valued key, [] when absent
Arr(o, k) == IF Has(o, k) THEN o[k] ELSE <<>>

\* o.k for an object-valued key, {} when absent
Obj(o, k) == IF Has(o, k) THEN o[k] ELSE EmptyObj

\* o.k for a number-valued key
Num(o, k) == IF Has(o, k) THEN o[k] ELSE NoNum
NumTruthy(n) == n # NoNum /\ n # 0

\* JSON.parse on the argument strings the payloads of the model carry:
\* ok = FALSE stands for the SyntaxError it throws
JSONParse(text) ==
    CASE text = "{}" -> [ok |-> TRUE, value |-> EmptyObj]
      [] text = "{\"date\":\"2026-01-10\"}" ->
            [ok |-> TRUE, value |-> [date |-> "2026-01-10"]]
      [] OTHER -> [ok |-> FALSE, value |-> EmptyObj]

\* msg.input_parameters || msg.parameters || msg.arguments || {}
MsgParams(msg) ==
    IF Has(msg, "input_parameters") THEN msg.input_parameters
    ELSE IF Has(msg, "parameters") THEN msg.parameters
    ELSE IF Has(msg, "arguments") THEN msg.arguments
    ELSE EmptyObj

\* the tool call of one session message, as a sequence of zero or one call
MessageCalls(msg) ==
    IF Get(msg, "type") = "tool_call" \/ Get(msg, "role") = "tool"
    THEN << [name |-> Or(Get(msg, "tool_name"),
                         Or(Get(msg, "function"), Or(Get(msg, "name"), "unknown"))),
             params |-> MsgParams(msg),
             response |-> IF Has(msg, "response") THEN msg.response
                          ELSE Obj(msg, "result")] >>
    ELSE <<>>

\* session.messages || session.transcript || []
SessionMessages(session) ==
    IF Has(session, "messages") THEN session.messages
    ELSE Arr(session, "transcript")

RECURSIVE MessagesCalls(_, _)
MessagesCalls(messages, i) ==
    IF i > Len(messages) THEN <<>>
    ELSE MessageCalls(messages[i]) \o MessagesCalls(messages, i + 1)

RECURSIVE SessionsCalls(_, _)
SessionsCalls(sessions, i) ==
    IF i > Len(sessions) THEN <<>>
    ELSE MessagesCalls(SessionMessages(sessions[i]), 1)
            \o SessionsCalls(sessions, i + 1)

\* the calls one event contributes; ok = FALSE when JSON.parse throws
EventCalls(event) ==
    LET resp == Obj(Obj(event, "output"), "response")
        isAI == Get(event, "integration_name") = "AI"
        named == IF isAI /\ (Truthy(Get(resp, "tool_name"))
                                \/ Truthy(Get(resp, "function_name")))
                 THEN << [name |-> Or(Get(resp, "tool_name"), Get(resp, "function_name")),
                          params |-> IF Has(resp, "parameters") THEN resp.parameters
                                     ELSE Obj(resp, "input_parameters"),
                          response |-> EmptyObj] >>
                 ELSE <<>>
        fc == Obj(resp, "function_call")
        hasFc == isAI /\ Has(resp, "function_call")
        args == JSONParse(Or(Get(fc, "arguments"), "{}"))
        called == IF hasFc
                  THEN << [name |-> Or(Get(fc, "name"), "unknown"),
                           params |-> args.value,
                           response |-> EmptyObj] >>
                  ELSE <<>>
        direct == IF Get(event, "type") = "tool_call"
                  THEN << [name |-> Or(Get(event, "tool_name"),
                                       Or(Get(event, "name"), "unknown")),
                           params |-> IF Has(event, "input_parameters")
                                      THEN event.input_parameters
                                      ELSE Obj(event, "parameters"),
                           response |-> Obj(event, "response")] >>
                  ELSE <<>>
    IN  [ok |-> ~hasFc \/ args.ok, calls |-> named \o called \o direct]

RECURSIVE EventsCalls(_, _)
EventsCalls(events, i) ==
    IF i > Len(events) THEN [ok |-> TRUE, calls |-> <<>>]
    ELSE LET here == EventCalls(events[i])
             rest == EventsCalls(events, i + 1)
         IN  IF here.ok
             THEN [ok |-> rest.ok, calls |-> here.calls \o rest.calls]
             ELSE [ok |-> FALSE, calls |-> <<>>]

\* extractToolCalls: the sessions' calls, then the events' calls
extractToolCalls(r) ==
    LET ev == EventsCalls(Arr(r, "events"), 1)
    IN  [ok |-> ev.ok,
         calls |-> IF ev.ok THEN SessionsCalls(Arr(r, "sessions"), 1) \o ev.calls
                   ELSE <<>>]

RECURSIVE SessionsDuration(_, _)
SessionsDuration(sessions, i) ==
    IF i > Len(sessions) THEN NoNum
    ELSE IF NumTruthy(Num(sessions[i], "duration")) THEN sessions[i].duration
    ELSE IF NumTruthy(Num(Obj(sessions[i], "output"), "duration"))
         THEN sessions[i].output.duration
    ELSE SessionsDuration(sessions, i + 1)

RECURSIVE EventsDuration(_, _)
EventsDuration(events, i) ==
    IF i > Len(events) THEN NoNum
    ELSE IF Get(events[i], "type") = "session"
            /\ NumTruthy(Num(Obj(events[i], "output"), "duration"))
         THEN events[i].output.duration
    ELSE EventsDuration(events, i + 1)

\* getCallDuration; timestamps are carried as epoch milliseconds
getCallDuration(r) ==
    LET bySession == SessionsDuration(Arr(r, "sessions"), 1)
        byEvent == EventsDuration(Arr(r, "events"), 1)
        start == Num(r, "timestamp")
        end == Num(r, "completed_at")
    IN  IF bySession # NoNum THEN bySession
        ELSE IF byEvent # NoNum THEN byEvent
        ELSE IF NumTruthy(start) /\ NumTruthy(end) /\ end > start
             THEN (end - start + 500) \div 1000
        ELSE NoNum

RECURSIVE SessionsPhone(_, _)
SessionsPhone(sessions, i) ==
    IF i > Len(sessions) THEN Undef
    ELSE IF Truthy(Get(Obj(sessions[i], "phone_numbers"), "to"))
         THEN sessions[i].phone_numbers.to
    ELSE IF Truthy(Get(sessions[i], "to_number")) THEN sessions[i].to_number
    ELSE SessionsPhone(sessions, i + 1)

\* getPhoneNumber
getPhoneNumber(r) ==
    LET bySession == SessionsPhone(Arr(r, "sessions"), 1)
    IN  IF bySession # Undef THEN bySession
        ELSE IF Truthy(Get(Obj(r, "metadata"), "phone_number"))
             THEN r.metadata.phone_number
        ELSE ""

\* getContactInfo: the first of metadata, trigger_data, input_data that is
\* present is the only object consulted
getContactInfo(r) ==
    LET meta == IF Has(r, "metadata") THEN r.metadata
                ELSE IF Has(r, "trigger_data") THEN r.trigger_data
                ELSE Obj(r, "input_data")
    IN  [contactName |-> Or(Get(meta, "contact_name"),
                            Or(Get(meta, "nombre"), Get(meta, "name"))),
         companyName |-> Or(Get(meta, "company_name"),
                            Or(Get(meta, "empresa"), Get(meta, "company")))]

Includes(names, x) == \E i \in 1..Len(names) : names[i] = x

determineOutcomeCallbackFirst(toolNames) ==
    IF Includes(toolNames, "schedule_callback") THEN "callback"
    ELSE IF Includes(toolNames, "escalate_to_commercial") THEN "escalated"
    ELSE IF Includes(toolNames, "record_price_expectation") THEN "price_recorded"
    ELSE IF Includes(toolNames, "record_qualified_lead") THEN "qualified"
    ELSE IF Includes(toolNames, "request_decision_maker_contact") THEN "decision_maker"
    ELSE IF Includes(toolNames, "report_voicemail") THEN "voicemail"
    ELSE IF Includes(toolNames, "close_polite") THEN "closed"
    ELSE "unknown"

determineOutcome(toolNames) ==
    IF Includes(toolNames, "escalate_to_commercial") THEN "escalated"
    ELSE IF Includes(toolNames, "record_price_expectation") THEN "price_recorded"
    ELSE IF Includes(toolNames, "record_qualified_lead") THEN "qualified"
    ELSE IF Includes(toolNames, "schedule_callback") THEN "callback"
    ELSE IF Includes(toolNames, "request_decision_maker_contact") THEN "decision_maker"
    ELSE IF Includes(toolNames, "report_voicemail") THEN "voicemail"
    ELSE IF Includes(toolNames, "close_polite") THEN "closed"
    ELSE "unknown"

inferPhase(toolNames) ==
    IF Includes(toolNames, "escalate_to_commercial") THEN 5
    ELSE IF Includes(toolNames, "record_price_expectation") THEN 5
    ELSE IF Includes(toolNames, "record_qualified_lead") THEN 4
    ELSE IF Includes(toolNames, "report_voicemail") THEN 0
    ELSE IF Includes(toolNames, "request_decision_maker_contact") THEN 1
    ELSE IF Includes(toolNames, "schedule_callback") THEN 2
    ELSE IF Includes(toolNames, "close_polite") THEN 2
    ELSE 0

FindParamsAnyCall(calls, name, i) ==
    IF Len(calls) = 0 THEN EmptyObj ELSE calls[1].params

\* toolCalls.find((t) => t.name === name)?.params, {} when there is none
RECURSIVE FindParams(_, _, _)
FindParams(calls, name, i) ==
    IF i > Len(calls) THEN EmptyObj
    ELSE IF calls[i].name = name THEN calls[i].params
    ELSE FindParams(calls, name, i + 1)

RECURSIVE FindResponse(_, _, _)
FindResponse(calls, name, i) ==
    IF i > Len(calls) THEN EmptyObj
    ELSE IF calls[i].name = name THEN calls[i].response
    ELSE FindResponse(calls, name, i + 1)

ParseOutcomeIgnoresStatus(status, toolNames) == determineOutcome(toolNames)

\* the outcome line of parseRun
ParseOutcome(status, toolNames) ==
    IF status = "running" THEN "in_progress" ELSE determineOutcome(toolNames)

\* parseRun; ok = FALSE when extractToolCalls throws
parseRun(r) ==
    LET ex == extractToolCalls(r)
        toolCalls == ex.calls
        toolNames == [i \in 1..Len(toolCalls) |-> toolCalls[i].name]
        status == Get(r, "status")
        priceParams == FindParams(toolCalls, "record_price_expectation", 1)
        priceResp == FindResponse(toolCalls, "record_price_expectation", 1)
        neg == Or(Get(priceParams, "negotiation_result"),
                  Get(priceResp, "negotiation_result"))
        closeParams == FindParams(toolCalls, "close_polite", 1)
        cbParams == FindParams(toolCalls, "schedule_callback", 1)
        dmParams == FindParams(toolCalls, "request_decision_maker_contact", 1)
        contact == getContactInfo(r)
    IN  [ok |-> ex.ok,
         call |->
            [id |-> Get(r, "id"),
             phone |-> getPhoneNumber(r),
             contactName |-> contact.contactName,
             companyName |-> contact.companyName,
             status |-> status,
             outcome |-> ParseOutcome(status, toolNames),
             phaseReached |-> inferPhase(toolNames),
             duration |-> getCallDuration(r),
             timestamp |-> Num(r, "timestamp"),
             completedAt |-> Num(r, "completed_at"),
             toolsCalled |-> toolNames,
             negotiationResult |->
                IF neg \in {"aligned", "negotiable", "out_of_market"}
                THEN neg ELSE Undef,
             callbackDate |-> Get(cbParams, "date"),
             callbackTime |-> Get(cbParams, "time"),
             callbackNotes |-> Get(cbParams, "notes"),
             decisionMakerName |-> Get(dmParams, "name"),
             closeReason |-> Or(Get(closeParams, "reason"),
                                Get(closeParams, "message")),
             clientPrice |-> Get(priceParams, "client_price")]]

(***************************************************************************)
(* Operations on the pending store                                         *)
(***************************************************************************)
\* POST /api/pre-call
PreCall(c) ==
    /\ pendingCallStore' = storePendingCall(pendingCallStore, c, now, regs + 1)
    /\ regs' = regs + 1
    /\ last' = [op |-> "register", before |-> pendingCallStore, uid |-> regs + 1,
                at |-> now]
    /\ UNCHANGED <<webhookStore, now, handlers, ticks, used, claimLog, run, parsed,
                   order>>

\* the clock moves between two requests
Advance(d) ==
    /\ now' = now + d
    /\ ticks' = ticks + 1
    /\ UNCHANGED <<webhookStore, pendingCallStore, handlers, regs, used, last,
                   claimLog, run, parsed, order>>

\* popRecentPendingCall(120_000) applied to the current store
PopRecent ==
    LET r == popRecentPendingCall(pendingCallStore, now, DefaultTTL)
    IN  /\ pendingCallStore' = r.store
        /\ last' = [op |-> "pop", before |-> pendingCallStore, idx |-> r.idx,
                    at |-> now]
        /\ UNCHANGED <<webhookStore, now, handlers, regs, ticks, used, claimLog,
                       run, parsed, order>>

InitCommon ==
    /\ webhookStore = <<>>
    /\ pendingCallStore = <<>>
    /\ now = 0
    /\ handlers = <<>>
    /\ regs = 0
    /\ ticks = 0
    /\ used = [webhook |-> 0, legacy |-> 0, report |-> 0]
    /\ last = [op |-> "none"]
    /\ claimLog = <<>>
    /\ run = <<>>
    /\ parsed = <<>>
    /\ order = <<>>

TTLRegister == \E c \in PendingInputs : regs < MaxTTLRegs /\ PreCall(c)
TTLTick == \E d \in Deltas : ticks < MaxTTLTicks /\ Advance(d)
TTLPop == PopRecent

NextTTL == TTLRegister \/ TTLTick \/ TTLPop
SpecTTL == InitCommon /\ [][NextTTL]_vars

CapInput == [phone |-> "+34600000000", contactName |-> "Ana", companyName |-> Undef]
CapRegister == regs < MaxCapRegs /\ PreCall(CapInput)
CapTick == \E d \in {1, DefaultTTL + 1} : ticks < MaxCapTicks /\ Advance(d)

NextCap == CapRegister \/ CapTick
SpecCap == InitCommon /\ [][NextCap]_vars

(***************************************************************************)
(* parseRun applied to bounded payloads                                    *)
(***************************************************************************)
MaxInvs == 2        \* tool invocations a payload of SpecParse carries

PriorityTools ==
    <<"escalate_to_commercial", "record_price_expectation", "record_qualified_lead",
      "schedule_callback", "request_decision_maker_contact", "report_voicemail",
      "close_polite">>

\* the names a payload may mention: the seven tools and one the table ignores
NameAlphabet == Range(PriorityTools) \cup {"check_inventory"}

\* the places of a payload a name can sit in
Encodings == {"message", "function", "event", "ai", "text"}
MessageEncodings == {"message", "function", "text"}
IsMessageInv(inv) == inv.enc \in MessageEncodings
IsEventInv(inv) == inv.enc \notin MessageEncodings

InvMessage(inv) ==
    CASE inv.enc = "message" ->
            [type |-> "tool_call", tool_name |-> inv.name, input_parameters |-> EmptyObj]
      [] inv.enc = "function" -> [role |-> "tool", function |-> inv.name]
      [] OTHER -> [type |-> "text", role |-> "assistant", name |-> inv.name]

InvEvent(inv) ==
    CASE inv.enc = "event" -> [type |-> "tool_call", name |-> inv.name]
      [] inv.enc = "ai_bad" ->
            [integration_name |-> "AI",
             output |-> [response |->
                [function_call |-> [name |-> inv.name, arguments |-> "{date:"]]]]
      [] OTHER ->
            [integration_name |-> "AI",
             output |-> [response |->
                [function_call |-> [name |-> inv.name, arguments |-> "{}"]]]]

\* a legacy payload with the given status and the given names placed in it
BuildRun(status, invs) ==
    LET ms == SelectSeq(invs, IsMessageInv)
        es == SelectSeq(invs, IsEventInv)
        base == [id |-> "r1", status |-> status, timestamp |-> 1000]
        withS == IF Len(ms) = 0 THEN base
                 ELSE Spread(base, [sessions |->
                        << [messages |-> [i \in 1..Len(ms) |-> InvMessage(ms[i])]] >>])
    IN  IF Len(es) = 0 THEN withS
        ELSE Spread(withS, [events |-> [i \in 1..Len(es) |-> InvEvent(es[i])]])

Invocations == [name : NameAlphabet, enc : Encodings]
ParseStatuses == {"running", "completed", "failed"}
ParseInputs ==
    {BuildRun(st, invs) :
        st \in ParseStatuses,
        invs \in UNION {[1..n -> Invocations] : n \in 0..MaxInvs}}

InitParse ==
    /\ webhookStore = <<>>
    /\ pendingCallStore = <<>>
    /\ now = 0
    /\ handlers = <<>>
    /\ regs = 0
    /\ ticks = 0
    /\ used = [webhook |-> 0, legacy |-> 0, report |-> 0]
    /\ last = [op |-> "none"]
    /\ claimLog = <<>>
    /\ run \in ParseInputs
    /\ parsed = [done |-> FALSE]
    /\ order = <<>>

Parse ==
    /\ ~parsed.done
    /\ parsed' = Spread(parseRun(run), [done |-> TRUE])
    /\ UNCHANGED <<webhookStore, pendingCallStore, now, handlers, regs, ticks,
                   used, last, claimLog, run, order>>

NextParse == Parse
SpecParse == InitParse /\ [][NextParse]_vars

\* parseRun applied to payloads that carry contact data in metadata, in
\* trigger_data and in input_data
ContactObjects ==
    {EmptyObj,
     [phone_number |-> "+34600000000"],
     [contact_name |-> "Eva", company_name |-> "Levante"],
     [nombre |-> "Ana"],
     [name |-> "Luis", empresa |-> "Norte"],
     [company |-> "Sur"]}

\* the payload with the objects of has, a subset of the three keys
ContactKeys == {"metadata", "trigger_data", "input_data"}
ContactRun(has, m, t, i) ==
    Spread([id |-> "r1", status |-> "completed", timestamp |-> 1000],
        [k \in has |-> IF k = "metadata" THEN m
                       ELSE IF k = "trigger_data" THEN t ELSE i])
ContactInputs ==
    {ContactRun(has, m, t, i) : has \in SUBSET ContactKeys, m \in ContactObjects,
                                t \in ContactObjects, i \in ContactObjects}

InitContact ==
    /\ webhookStore = <<>>
    /\ pendingCallStore = <<>>
    /\ now = 0
    /\ handlers = <<>>
    /\ regs = 0
    /\ ticks = 0
    /\ used = [webhook |-> 0, legacy |-> 0, report |-> 0]
    /\ last = [op |-> "none"]
    /\ claimLog = <<>>
    /\ run \in ContactInputs
    /\ parsed = [done |-> FALSE]
    /\ order = <<>>

NextContact == Parse
SpecContact == InitContact /\ [][NextContact]_vars

\* extractToolCalls applied to payloads whose invocations sit in messages,
\* in tool_call events and in AI function calls, with arguments that are
\* JSON and with arguments that are not
ExtractNames == {"schedule_callback", "escalate_to_commercial", "check_inventory"}
ExtractEncodings == {"message", "event", "ai", "ai_bad"}
ExtractInputs ==
    {BuildRun("completed", invs) :
        invs \in UNION {[1..n -> [name : ExtractNames, enc : ExtractEncodings]] :
                           n \in 0..MaxInvs}}

InitExtract ==
    /\ webhookStore = <<>>
    /\ pendingCallStore = <<>>
    /\ now = 0
    /\ handlers = <<>>
    /\ regs = 0
    /\ ticks = 0
    /\ used = [webhook |-> 0, legacy |-> 0, report |-> 0]
    /\ last = [op |-> "none"]
    /\ claimLog = <<>>
    /\ run \in ExtractInputs
    /\ parsed = [done |-> FALSE]
    /\ order = <<>>

Extract ==
    /\ ~parsed.done
    /\ parsed' = Spread(extractToolCalls(run), [done |-> TRUE])
    /\ UNCHANGED <<webhookStore, pendingCallStore, now, handlers, regs, ticks,
                   used, last, claimLog, run, order>>

NextExtract == Extract
SpecExtract == InitExtract /\ [][NextExtract]_vars

(***************************************************************************)
(* Run store (src/lib/store.ts)                                            *)
(***************************************************************************)
\* Map.prototype.set on the key order: a new key goes last, a key already
\* present keeps its place
MapSet(keys, id) ==
    IF \E i \in 1..Len(keys) : keys[i] = id THEN keys ELSE Append(keys, id)

UpsertRunOverwrite(store, call) ==
    [k \in (DOMAIN store) \cup {call.id} |-> IF k = call.id THEN call ELSE store[k]]

UpsertRunSpreadsContact(store, call) ==
    LET merged ==
            IF call.id \in DOMAIN store
            THEN LET existing == store[call.id]
                 IN  Spread(Spread(existing, call),
                        [phone |-> Or(call.phone, existing.phone),
                         contactName |-> Or(Get(call, "contactName"),
                                            Get(existing, "contactName")),
                         companyName |-> Or(Get(call, "companyName"),
                                            Get(existing, "companyName"))])
            ELSE call
    IN  [k \in (DOMAIN store) \cup {call.id} |->
            IF k = call.id THEN merged
            ELSE Spread(store[k], [phone |-> Or(store[k].phone, call.phone)])]

UpsertRunExistingWins(store, call) ==
    LET merged ==
            IF call.id \in DOMAIN store
            THEN LET existing == store[call.id]
                 IN  Spread(Spread(call, existing),
                        [phone |-> Or(call.phone, existing.phone),
                         contactName |-> Or(Get(call, "contactName"),
                                            Get(existing, "contactName")),
                         companyName |-> Or(Get(call, "companyName"),
                                            Get(existing, "companyName"))])
            ELSE call
    IN  [k \in (DOMAIN store) \cup {call.id} |-> IF k = call.id THEN merged ELSE store[k]]

\* upsertRun: webhookStore.set(call.id, merged)
upsertRun(store, call) ==
    LET merged ==
            IF call.id \in DOMAIN store
            THEN LET existing == store[call.id]
                 IN  Spread(Spread(existing, call),
                        [phone |-> Or(call.phone, existing.phone),
                         contactName |-> Or(Get(call, "contactName"),
                                            Get(existing, "contactName")),
                         companyName |-> Or(Get(call, "companyName"),
                                            Get(existing, "companyName"))])
            ELSE call
    IN  [k \in (DOMAIN store) \cup {call.id} |-> IF k = call.id THEN merged ELSE store[k]]

\* updateRecentRunByPhone is imported by the call-result route from the store
\* module; the store module at hand does not carry it. Among the records with
\* the given phone the one with the latest timestamp takes the partial update.
PhoneMatches(store, phone) == {k \in DOMAIN store : store[k].phone = phone}

updateRecentRunByPhone(store, phone, updates, k) ==
    [j \in DOMAIN store |-> IF j = k THEN Spread(store[j], updates) ELSE store[j]]

MostRecentOldest(store, ks) ==
    {k \in ks : \A j \in ks : store[k].timestamp <= store[j].timestamp}

MostRecent(store, ks) ==
    {k \in ks : \A j \in ks : store[j].timestamp <= store[k].timestamp}

(***************************************************************************)
(* fetchRunById and the webhook route                                      *)
(***************************************************************************)
\* data.run ?? data.session ?? data.data ?? data
Unwrap(data) ==
    IF Has(data, "run") THEN data.run
    ELSE IF Has(data, "session") THEN data.session
    ELSE IF Has(data, "data") THEN data.data
    ELSE data

\* urlsToTry: two run URLs, three more when there is a session id, and the
\* v2 run URL last
urlsToTry(runId, sessionId) ==
    << "/runs/" \o runId, "/api/v1/runs/" \o runId >>
    \o (IF Truthy(sessionId)
        THEN << "/runs/" \o sessionId, "/api/v2/sessions/" \o sessionId,
                "/api/v1/sessions/" \o sessionId >>
        ELSE <<>>)
    \o << "/api/v2/runs/" \o runId >>

\* what the fetch of one URL meets: a network error (fetch throws), a
\* response that is not ok, or a 2xx response with a JSON body
NetError == [net |-> "error"]
NotOk == [net |-> "404"]
Ok200(data) == [net |-> "200", data |-> data]

FetchLoopAbort(runId, sessionId, answers, i) ==
    IF i > Len(urlsToTry(runId, sessionId)) \/ answers[i].net # "200"
    THEN [found |-> FALSE, call |-> EmptyObj, tried |-> i]
    ELSE LET r == Unwrap(answers[i].data)
             effectiveId == IF Has(r, "id") THEN r.id ELSE runId
             p == parseRun(Spread(r, [id |-> effectiveId]))
         IN  IF ~p.ok
             THEN [found |-> FALSE, call |-> EmptyObj, tried |-> i]
             ELSE [found |-> TRUE,
                   call |-> IF Truthy(sessionId)
                            THEN Spread(p.call, [sessionId |-> sessionId])
                            ELSE p.call,
                   tried |-> i]

\* the loop of fetchRunById from URL i on: answers[i] is what the fetch of
\* URL i meets. A thrown fetch and a body on which parseRun throws are caught
\* and the loop goes on; tried is the number of URLs fetched.
RECURSIVE FetchLoop(_, _, _, _)
FetchLoop(runId, sessionId, answers, i) ==
    IF i > Len(urlsToTry(runId, sessionId))
    THEN [found |-> FALSE, call |-> EmptyObj, tried |-> i - 1]
    ELSE IF answers[i].net # "200"
    THEN FetchLoop(runId, sessionId, answers, i + 1)
    ELSE LET r == Unwrap(answers[i].data)
             effectiveId == IF Has(r, "id") THEN r.id ELSE runId
             p == parseRun(Spread(r, [id |-> effectiveId]))
         IN  IF ~p.ok
             THEN FetchLoop(runId, sessionId, answers, i + 1)
             ELSE [found |-> TRUE,
                   call |-> IF Truthy(sessionId)
                            THEN Spread(p.call, [sessionId |-> sessionId])
                            ELSE p.call,
                   tried |-> i]

\* fetchRunById: net.apiKey tells whether HAPPYROBOT_API_KEY is set,
\* net.answers what the URLs answer
fetchRunById(runId, sessionId, net) ==
    IF ~net.apiKey THEN [found |-> FALSE, call |-> EmptyObj, tried |-> 0]
    ELSE FetchLoop(runId, sessionId, net.answers, 1)

\* statusObj?.current ?? 'unknown', mapped to a ParsedCall status
MappedStatus(current) ==
    IF current = "in-progress" THEN "running"
    ELSE IF current = "completed" THEN "completed"
    ELSE IF current = "failed" THEN "failed"
    ELSE "running"

FallbackCallAlwaysUnknown(ev, t) ==
    LET mapped == MappedStatus(ev.current)
    IN  [id |-> ev.run_id,
         phone |-> "",
         status |-> mapped,
         outcome |-> "unknown",
         phaseReached |-> IF mapped = "running" THEN 1 ELSE 3,
         timestamp |-> IF ev.time # NoNum THEN ev.time ELSE t,
         completedAt |-> IF ev.current = "completed" THEN ev.updated_at ELSE NoNum,
         toolsCalled |-> <<>>,
         isDemo |-> FALSE,
         sessionId |-> ev.session_id]

\* the ParsedCall built from the CloudEvents data alone
FallbackCall(ev, t) ==
    LET mapped == MappedStatus(ev.current)
    IN  [id |-> ev.run_id,
         phone |-> "",
         status |-> mapped,
         outcome |-> IF mapped = "running" THEN "in_progress" ELSE "unknown",
         phaseReached |-> IF mapped = "running" THEN 1 ELSE 3,
         timestamp |-> IF ev.time # NoNum THEN ev.time ELSE t,
         completedAt |-> IF ev.current = "completed" THEN ev.updated_at ELSE NoNum,
         toolsCalled |-> <<>>,
         isDemo |-> FALSE,
         sessionId |-> ev.session_id]

WantsPendingAnyStatus(ev, call) ==
    ~Truthy(call.phone) \/ ~Truthy(Get(call, "contactName"))

\* currentStatus === 'in-progress' && (!call.phone || !call.contactName)
WantsPending(ev, call) ==
    ev.current = "in-progress"
        /\ (~Truthy(call.phone) \/ ~Truthy(Get(call, "contactName")))

MergePendingRecordFirst(call, pending) ==
    Spread(call,
        [phone |-> Or(call.phone, pending.phone),
         contactName |-> Or(Get(call, "contactName"), pending.contactName),
         companyName |-> Or(Get(call, "companyName"), pending.companyName)])

\* { ...call, phone: pending.phone || call.phone, ... }
MergePending(call, pending) ==
    Spread(call,
        [phone |-> Or(pending.phone, call.phone),
         contactName |-> Or(pending.contactName, Get(call, "contactName")),
         companyName |-> Or(pending.companyName, Get(call, "companyName"))])

\* the CloudEvents bodies delivered: run r1 comes with a session id and an
\* event time, run r2 with neither
Currents == {"in-progress", "completed", "failed"}
Events ==
    {[run_id |-> "r1", session_id |-> "s1", current |-> c, time |-> 1000,
      updated_at |-> 61000] : c \in Currents}
    \cup
    {[run_id |-> "r2", session_id |-> Undef, current |-> "in-progress",
      time |-> NoNum, updated_at |-> NoNum]}

\* the CloudEvents bodies whose data carries no run_id, or an empty one
NoRunIdEvents ==
    {[run_id |-> Undef, session_id |-> "s1", current |-> "in-progress",
      time |-> 1000, updated_at |-> NoNum],
     [run_id |-> "", session_id |-> Undef, current |-> "completed",
      time |-> NoNum, updated_at |-> 61000]}

\* the 2xx bodies the upstream API answers with
Responses ==
    {[status |-> "running", timestamp |-> 1000,
      sessions |-> << [messages |-> << [type |-> "tool_call",
                                        tool_name |-> "record_qualified_lead"] >>,
                       phone_numbers |-> [to |-> "+34600000000"]] >>],
     [run |-> [status |-> "completed", timestamp |-> 1000, completed_at |-> 61000,
               metadata |-> [contact_name |-> "Eva", phone_number |-> "+34600000001"],
               events |-> << [type |-> "tool_call", name |-> "schedule_callback"],
                             [type |-> "tool_call",
                              tool_name |-> "escalate_to_commercial"] >>]],
     [id |-> "s1", status |-> "completed", timestamp |-> 2000]}

\* the legacy bodies delivered
LegacyBodies ==
    {[id |-> "r1", status |-> "completed", timestamp |-> 1000,
      sessions |-> << [messages |-> << [type |-> "tool_call",
                                        tool_name |-> "record_qualified_lead",
                                        input_parameters |-> EmptyObj] >>] >>],
     [data |-> [id |-> "r2", status |-> "running", timestamp |-> 3000,
                metadata |-> [nombre |-> "Eva"]]]}

\* the upstream API as Spec meets it: out of reach, or answering the first
\* URL with one of the bodies
AllDown(ev) ==
    [apiKey |-> TRUE,
     answers |-> [i \in 1..Len(urlsToTry(ev.run_id, ev.session_id)) |-> NetError]]
FirstAnswers(ev, d) ==
    [apiKey |-> TRUE,
     answers |-> [i \in 1..Len(urlsToTry(ev.run_id, ev.session_id)) |->
                     IF i = 1 THEN Ok200(d) ELSE NetError]]
MainNets(ev) == {AllDown(ev)} \cup {FirstAnswers(ev, d) : d \in Responses}

Handlers == {1, 2}
Idle == [pc |-> "idle"]

\* POST /api/webhook, CloudEvents body with a run_id: up to the await of
\* fetchRunById
WebhookReceive(h, ev) ==
    /\ handlers[h].pc = "idle"
    /\ \A g \in Handlers : g < h => handlers[g].pc # "idle"
    /\ handlers' = [handlers EXCEPT ![h] = [pc |-> "fetching", ev |-> ev]]
    /\ used' = [used EXCEPT !.webhook = @ + 1]
    /\ UNCHANGED <<webhookStore, pendingCallStore, now, regs, ticks, last,
                   claimLog, run, parsed, order>>

\* POST /api/webhook, CloudEvents body without run_id
WebhookNoRunId(ev) ==
    /\ ~Truthy(ev.run_id)
    /\ last' = [op |-> "no_run_id", ev |-> ev]
    /\ used' = [used EXCEPT !.webhook = @ + 1]
    /\ UNCHANGED <<webhookStore, pendingCallStore, now, handlers, regs, ticks,
                   claimLog, run, parsed, order>>

\* the other handlers suspended at their fetch
InFlight(h) == {g \in Handlers \ {h} : handlers[g].pc = "fetching"}

\* the id upserted by the previous request, when that request was a webhook
\* handled while handler h was suspended at its fetch
Overlapped(h) ==
    IF last.op = "webhook" /\ h \in last.inflight THEN <<last.call.id>> ELSE <<>>

\* the run store as handler h would have read it before the overlapping
\* request wrote to it
StaleStore(h, id) ==
    IF Overlapped(h) # <<id>> THEN webhookStore
    ELSE [k \in IF last.existed THEN DOMAIN webhookStore
                ELSE (DOMAIN webhookStore) \ {id} |->
             IF k = id THEN last.prev ELSE webhookStore[k]]

WebhookResumeStale(h, net) ==
    /\ handlers[h].pc = "fetching"
    /\ \E ev \in {handlers[h].ev} :
       \E fetched \in {fetchRunById(ev.run_id, ev.session_id, net)} :
       \E built \in {IF fetched.found THEN fetched.call ELSE FallbackCall(ev, now)} :
       \E pop \in {IF WantsPending(ev, built)
                   THEN popRecentPendingCall(pendingCallStore, now, 120000)
                   ELSE [idx |-> 0, store |-> pendingCallStore]} :
       \E call \in {IF pop.idx # 0
                    THEN MergePending(built, pendingCallStore[pop.idx])
                    ELSE built} :
          /\ pendingCallStore' = pop.store
          /\ webhookStore' =
                [k \in (DOMAIN webhookStore) \cup {call.id} |->
                    IF k = call.id
                    THEN upsertRun(StaleStore(h, call.id), call)[call.id]
                    ELSE webhookStore[k]]
          /\ order' = MapSet(order, call.id)
          /\ claimLog' = IF pop.idx # 0
                         THEN Append(claimLog,
                                [uid |-> pendingCallStore[pop.idx].uid,
                                 id |-> call.id,
                                 others |-> {g \in Handlers \ {h} :
                                                handlers[g].pc = "fetching"}])
                         ELSE claimLog
          /\ last' = [op |-> "webhook", ev |-> ev, net |-> net,
                      tried |-> fetched.tried, built |-> built,
                      call |-> call,
                      existed |-> call.id \in DOMAIN webhookStore,
                      prev |-> IF call.id \in DOMAIN webhookStore
                               THEN webhookStore[call.id] ELSE EmptyObj,
                      idx |-> pop.idx,
                      before |-> pendingCallStore, at |-> now,
                      repeat |-> /\ last.op = "webhook"
                                 /\ last.ev = ev
                                 /\ last.net = net,
                      inflight |-> InFlight(h),
                      overlapped |-> Overlapped(h)]
    /\ handlers' = [handlers EXCEPT ![h] = Idle]
    /\ UNCHANGED <<now, regs, ticks, used, run, parsed>>

\* POST /api/webhook, CloudEvents body: from the return of fetchRunById to the
\* response
WebhookResume(h, net) ==
    /\ handlers[h].pc = "fetching"
    /\ \E ev \in {handlers[h].ev} :
       \E fetched \in {fetchRunById(ev.run_id, ev.session_id, net)} :
       \E built \in {IF fetched.found THEN fetched.call ELSE FallbackCall(ev, now)} :
       \E pop \in {IF WantsPending(ev, built)
                   THEN popRecentPendingCall(pendingCallStore, now, 120000)
                   ELSE [idx |-> 0, store |-> pendingCallStore]} :
       \E call \in {IF pop.idx # 0
                    THEN MergePending(built, pendingCallStore[pop.idx])
                    ELSE built} :
          /\ pendingCallStore' = pop.store
          /\ webhookStore' = upsertRun(webhookStore, call)
          /\ order' = MapSet(order, call.id)
          /\ claimLog' = IF pop.idx # 0
                         THEN Append(claimLog,
                                [uid |-> pendingCallStore[pop.idx].uid,
                                 id |-> call.id,
                                 others |-> {g \in Handlers \ {h} :
                                                handlers[g].pc = "fetching"}])
                         ELSE claimLog
          /\ last' = [op |-> "webhook", ev |-> ev, net |-> net,
                      tried |-> fetched.tried, built |-> built,
                      call |-> call,
                      existed |-> call.id \in DOMAIN webhookStore,
                      prev |-> IF call.id \in DOMAIN webhookStore
                               THEN webhookStore[call.id] ELSE EmptyObj,
                      idx |-> pop.idx,
                      before |-> pendingCallStore, at |-> now,
                      repeat |-> /\ last.op = "webhook"
                                 /\ last.ev = ev
                                 /\ last.net = net,
                      inflight |-> InFlight(h),
                      overlapped |-> Overlapped(h)]
    /\ handlers' = [handlers EXCEPT ![h] = Idle]
    /\ UNCHANGED <<now, regs, ticks, used, run, parsed>>

\* body.run ?? body.data ?? body
UnwrapLegacy(body) ==
    IF Has(body, "run") THEN body.run
    ELSE IF Has(body, "data") THEN body.data
    ELSE body

WebhookLegacyNoIdCheck(body) ==
    /\ \E r \in {UnwrapLegacy(body)} :
       \E p \in {parseRun(r)} :
          /\ webhookStore' = upsertRun(webhookStore, p.call)
          /\ order' = MapSet(order, p.call.id)
          /\ last' = [op |-> "legacy", body |-> body, call |-> p.call,
                      existed |-> p.call.id \in DOMAIN webhookStore,
                      prev |-> IF p.call.id \in DOMAIN webhookStore
                               THEN webhookStore[p.call.id] ELSE EmptyObj]
    /\ used' = [used EXCEPT !.legacy = @ + 1]
    /\ UNCHANGED <<pendingCallStore, now, handlers, regs, ticks, claimLog,
                   run, parsed>>

\* POST /api/webhook, legacy body
WebhookLegacy(body) ==
    /\ \E r \in {UnwrapLegacy(body)} :
       \E p \in {parseRun(r)} :
          IF Truthy(Get(r, "id")) /\ p.ok
          THEN /\ webhookStore' = upsertRun(webhookStore, p.call)
               /\ order' = MapSet(order, p.call.id)
               /\ last' = [op |-> "legacy", body |-> body, call |-> p.call,
                           existed |-> p.call.id \in DOMAIN webhookStore,
                           prev |-> IF p.call.id \in DOMAIN webhookStore
                                    THEN webhookStore[p.call.id] ELSE EmptyObj]
          ELSE /\ webhookStore' = webhookStore
               /\ order' = order
               /\ last' = [op |-> IF Truthy(Get(r, "id")) THEN "legacy_error"
                                  ELSE "no_run_id",
                           body |-> body]
    /\ used' = [used EXCEPT !.legacy = @ + 1]
    /\ UNCHANGED <<pendingCallStore, now, handlers, regs, ticks, claimLog,
                   run, parsed>>

(***************************************************************************)
(* The call-result route                                                   *)
(***************************************************************************)
ValidOutcomes ==
    {"escalated", "price_recorded", "qualified", "callback", "decision_maker",
     "voicemail", "closed"}

\* the properties every object literal inherits from Object.prototype; the
\* value read through one of them is a function, or an object for __proto__
PrototypeKeys ==
    {"constructor", "toString", "valueOf", "hasOwnProperty", "isPrototypeOf",
     "propertyIsEnumerable", "toLocaleString", "__proto__"}
Inherited(key) == "[inherited " \o key \o "]"

\* TOOL_TO_OUTCOME[tool]
ToolToOutcome(tool) ==
    CASE tool = "escalate_to_commercial" -> "escalated"
      [] tool = "record_price_expectation" -> "price_recorded"
      [] tool = "record_qualified_lead" -> "qualified"
      [] tool = "schedule_callback" -> "callback"
      [] tool = "request_decision_maker_contact" -> "decision_maker"
      [] tool = "report_voicemail" -> "voicemail"
      [] tool = "close_polite" -> "closed"
      [] tool \in PrototypeKeys -> Inherited(tool)
      [] OTHER -> Undef

\* AI_TAG_TO_OUTCOME[tag]
AITagToOutcome(tag) ==
    CASE tag = "escalated_to_commercial" -> "escalated"
      [] tag = "qualified_lead" -> "qualified"
      [] tag = "scheduled_callback" -> "callback"
      [] tag = "decision_maker_contact_provided" -> "decision_maker"
      [] tag = "voicemail" -> "voicemail"
      [] tag \in {"closed_no_interest", "closed_out_of_market", "closed_other",
                  "other"} -> "closed"
      [] tag \in PrototypeKeys -> Inherited(tag)
      [] OTHER -> Undef

\* PHASE_FOR_OUTCOME[outcome]
PhaseForOutcome(outcome) ==
    CASE outcome = "escalated" -> 6
      [] outcome = "price_recorded" -> 5
      [] outcome = "qualified" -> 4
      [] outcome = "callback" -> 3
      [] outcome = "decision_maker" -> 2
      [] outcome = "voicemail" -> 1
      [] outcome = "closed" -> 2
      [] outcome = "in_progress" -> 1
      [] outcome = "unknown" -> 3
      [] OTHER -> NoNum

\* Object.keys(TOOL_TO_OUTCOME).find((k) => TOOL_TO_OUTCOME[k] === outcome)
\*     ?? outcome
ToolForOutcome(outcome) ==
    CASE outcome = "escalated" -> "escalate_to_commercial"
      [] outcome = "price_recorded" -> "record_price_expectation"
      [] outcome = "qualified" -> "record_qualified_lead"
      [] outcome = "callback" -> "schedule_callback"
      [] outcome = "decision_maker" -> "request_decision_maker_contact"
      [] outcome = "voicemail" -> "report_voicemail"
      [] outcome = "closed" -> "close_polite"
      [] OTHER -> outcome

\* body.phone ?? body.phone_number ?? ''
ReportPhone(body) ==
    IF Has(body, "phone") THEN body.phone
    ELSE IF Has(body, "phone_number") THEN body.phone_number
    ELSE ""

\* the outcome the route settles on, undefined when there is none: the outcome
\* field when VALID_OUTCOMES has it, else the outcome of tool_called
ResolveOutcome(body) ==
    IF Truthy(Get(body, "outcome")) /\ body.outcome \in ValidOutcomes
    THEN body.outcome
    ELSE IF Truthy(Get(body, "tool_called"))
            /\ ToolToOutcome(body.tool_called) # Undef
         THEN ToolToOutcome(body.tool_called)
    ELSE Undef

\* the same in the route that also knows the classification tags
ResolveOutcomeTagged(body) ==
    IF Truthy(Get(body, "outcome")) /\ body.outcome \in ValidOutcomes
    THEN body.outcome
    ELSE IF Truthy(Get(body, "outcome")) /\ AITagToOutcome(body.outcome) # Undef
         THEN AITagToOutcome(body.outcome)
    ELSE IF Truthy(Get(body, "tool_called"))
            /\ ToolToOutcome(body.tool_called) # Undef
         THEN ToolToOutcome(body.tool_called)
    ELSE Undef

\* the body fields that go into the updates object when they are not
\* undefined, and the keys they go under
ExtraFields ==
    {<<"client_price", "clientPrice">>, <<"callback_date", "callbackDate">>,
     <<"callback_time", "callbackTime">>, <<"callback_notes", "callbackNotes">>,
     <<"decision_maker_name", "decisionMakerName">>,
     <<"close_reason", "closeReason">>}

ExtraUpdates(body) ==
    LET neg == Get(body, "negotiation_result")
        plain == {f \in ExtraFields : Has(body, f[1])}
        direct == [k \in {f[2] : f \in plain} |->
                      body[(CHOOSE f \in plain : f[2] = k)[1]]]
    IN  IF neg \in {"aligned", "negotiable", "out_of_market"}
        THEN Spread(direct, [negotiationResult |-> neg])
        ELSE direct

ResultUpdatesKeepStatus(outcome) ==
    [outcome |-> outcome,
     phaseReached |-> PhaseForOutcome(outcome),
     toolsCalled |-> << ToolForOutcome(outcome) >>]

\* the updates object of a report that carries no extra field
ResultUpdates(outcome) ==
    [outcome |-> outcome,
     status |-> "completed",
     phaseReached |-> PhaseForOutcome(outcome),
     toolsCalled |-> << ToolForOutcome(outcome) >>]

\* the updates object of the route that knows the classification tags:
\* toolsCalled is [rawOutcome ?? outcome], and a duration is taken over
TaggedUpdates(body, outcome) ==
    LET base == [outcome |-> outcome,
                 status |-> "completed",
                 phaseReached |-> PhaseForOutcome(outcome),
                 toolsCalled |-> << IF Has(body, "outcome") THEN body.outcome
                                     ELSE outcome >>]
        withExtra == Spread(base, ExtraUpdates(body))
    IN  IF Has(body, "duration")
        THEN Spread(withExtra, [duration |-> body.duration])
        ELSE withExtra

ReportPhones == {"+34600000000"}
ReportOutcomes == {"escalated", "closed"}

\* POST /api/call-result once the outcome and the updates object are settled:
\* the two early returns, then updateRecentRunByPhone and the response
PostResult(route, body, outcome, updates) ==
    /\ \E phone \in {ReportPhone(body)} :
       \E ks \in {PhoneMatches(webhookStore, phone)} :
          IF ~Truthy(phone)
          THEN /\ webhookStore' = webhookStore
               /\ last' = [op |-> "report", route |-> route, body |-> body,
                           ok |-> FALSE, error |-> "phone required",
                           before |-> webhookStore]
          ELSE IF outcome = Undef
          THEN /\ webhookStore' = webhookStore
               /\ last' = [op |-> "report", route |-> route, body |-> body,
                           ok |-> FALSE, error |-> "unknown outcome",
                           before |-> webhookStore]
          ELSE IF ks = {}
          THEN /\ webhookStore' = webhookStore
               /\ last' = [op |-> "report", route |-> route, body |-> body,
                           ok |-> TRUE, phone |-> phone, outcome |-> outcome,
                           updates |-> updates, matched |-> FALSE,
                           before |-> webhookStore]
          ELSE \E k \in MostRecent(webhookStore, ks) :
                /\ webhookStore' = updateRecentRunByPhone(webhookStore, phone,
                                        updates, k)
                /\ last' = [op |-> "report", route |-> route, body |-> body,
                            ok |-> TRUE, phone |-> phone, outcome |-> outcome,
                            updates |-> updates, matched |-> TRUE, id |-> k,
                            before |-> webhookStore]
    /\ used' = [used EXCEPT !.report = @ + 1]
    /\ UNCHANGED <<pendingCallStore, now, handlers, regs, ticks, claimLog,
                   run, parsed, order>>

\* POST /api/call-result
CallResult(body) ==
    \E outcome \in {ResolveOutcome(body)} :
        PostResult("call-result", body, outcome,
            IF outcome = Undef THEN EmptyObj
            ELSE Spread(ResultUpdates(outcome), ExtraUpdates(body)))

\* POST /api/call-result, the route that knows the classification tags
CallResultTagged(body) ==
    \E outcome \in {ResolveOutcomeTagged(body)} :
        PostResult("call-result-tagged", body, outcome,
            IF outcome = Undef THEN EmptyObj ELSE TaggedUpdates(body, outcome))

(***************************************************************************)
(* getAllRuns and the requests that read and write the run store alone     *)
(***************************************************************************)
MaxStoreRuns == 2       \* legacy deliveries in SpecStore
MaxStoreReports == 1    \* result reports in SpecStore

\* the comparator of getAllRuns, (a, b) => T(b) - T(a) with T the epoch time
\* of the timestamp: an absent timestamp makes it NaN, which sort reads as +0
CompareRuns(a, b) ==
    IF Num(a, "timestamp") = NoNum \/ Num(b, "timestamp") = NoNum THEN 0
    ELSE b.timestamp - a.timestamp

\* a consistent comparator in the sense of Array.prototype.sort
ConsistentComparator(vals) ==
    \A i, j, k \in 1..Len(vals) :
        LET ij == CompareRuns(vals[i], vals[j])
            jk == CompareRuns(vals[j], vals[k])
            ik == CompareRuns(vals[i], vals[k])
        IN  /\ (ij = 0 /\ jk = 0) => ik = 0
            /\ (ij < 0 /\ jk < 0) => ik < 0
            /\ (ij > 0 /\ jk > 0) => ik > 0

Orderings(n) == {p \in [1..n -> 1..n] : \A i, j \in 1..n : i # j => p[i] # p[j]}

\* p puts vals in the order a stable sort with the comparator gives
StableSorted(vals, p) ==
    \A i, j \in 1..Len(vals) : i < j =>
        LET c == CompareRuns(vals[p[i]], vals[p[j]])
        IN  c < 0 \/ (c = 0 /\ p[i] < p[j])

\* getAllRuns: the arrays Array.from(webhookStore.values()).sort(...) can
\* return. With a consistent comparator the sort is the stable one; with an
\* inconsistent one the order is implementation-defined.
getAllRuns(store, keys) ==
    LET vals == [i \in 1..Len(keys) |-> store[keys[i]]]
    IN  {[i \in 1..Len(vals) |-> vals[p[i]]] :
            p \in {q \in Orderings(Len(vals)) :
                      ConsistentComparator(vals) => StableSorted(vals, q)}}

\* GET /api/webhook: getAllRuns() and the summary made of it
ListRuns ==
    /\ \E runs \in getAllRuns(webhookStore, order) :
          last' = [op |-> "list", runs |-> runs, before |-> webhookStore,
                   runsReceived |-> Len(runs)]
    /\ UNCHANGED <<webhookStore, pendingCallStore, now, handlers, regs, ticks,
                   used, claimLog, run, parsed, order>>

\* the legacy bodies delivered in SpecStore
StoreBodies ==
    {[id |-> "r1", status |-> "completed", timestamp |-> 1000,
      sessions |-> << [messages |-> << [type |-> "tool_call",
                                        tool_name |-> "schedule_callback"] >>,
                       phone_numbers |-> [to |-> "+34600000000"]] >>],
     [id |-> "r2", status |-> "completed",
      sessions |-> << [messages |-> << [type |-> "tool_call",
                                        tool_name |-> "record_qualified_lead",
                                        input_parameters |-> EmptyObj] >>] >>],
     [run |-> [id |-> "r3", status |-> "running", timestamp |-> 2000,
               metadata |-> [phone_number |-> "+34600000000"]]],
     [id |-> "r2", status |-> "running", timestamp |-> 2000,
      metadata |-> [phone_number |-> "+34600000000", contact_name |-> "Eva"]],
     [id |-> "r1", status |-> "failed", timestamp |-> 3000]}

\* the report bodies delivered in SpecStore
StoreReportOutcomes ==
    ValidOutcomes \cup {"in_progress", "unknown", "qualified_lead", "toString"}
StoreReports ==
    {[phone |-> "+34600000000", outcome |-> o] : o \in StoreReportOutcomes}
    \cup
    {[outcome |-> "escalated"],
     [phone |-> "", outcome |-> "closed"],
     [phone_number |-> "+34600000000", tool_called |-> "close_polite"],
     [phone |-> "+34600000000", outcome |-> "in_progress",
      tool_called |-> "report_voicemail"],
     [phone |-> "+34600000000", tool_called |-> "constructor"],
     [phone |-> "+34600000000", tool_called |-> "hang_up"],
     [phone |-> "+34600000009", outcome |-> "escalated"],
     [phone |-> "+34600000000", outcome |-> "price_recorded",
      client_price |-> "1.20", negotiation_result |-> "negotiable",
      duration |-> 95]}

StoreLegacy == \E body \in StoreBodies :
                  used.legacy < MaxStoreRuns /\ WebhookLegacy(body)
StoreReport == \E body \in StoreReports :
                  used.report < MaxStoreReports /\ CallResult(body)
StoreReportTagged == \E body \in StoreReports :
                        used.report < MaxStoreReports /\ CallResultTagged(body)

NextStore == StoreLegacy \/ StoreReport \/ StoreReportTagged
SpecStore == InitCommon /\ [][NextStore]_vars

\* result reports that name their outcome in several ways at once
MaxResolveRuns == 1       \* legacy deliveries in SpecResolve
MaxResolveReports == 1    \* result reports in SpecResolve

\* the outcome fields and the tool_called fields of the reports; undefined
\* stands for a body without the field
ResolveOutcomeFields ==
    {Undef, "escalated", "closed", "closed_other", "qualified_lead", "other",
     "constructor", "bogus"}
ResolveToolFields ==
    {Undef, "close_polite", "schedule_callback", "constructor", "hang_up"}
ResolveBodies ==
    {Spread([phone |-> "+34600000000"],
            Spread(IF o = Undef THEN EmptyObj ELSE [outcome |-> o],
                   IF t = Undef THEN EmptyObj ELSE [tool_called |-> t])) :
        o \in ResolveOutcomeFields, t \in ResolveToolFields}

ResolveLegacy == \E body \in StoreBodies :
                    used.legacy < MaxResolveRuns /\ WebhookLegacy(body)
ResolveReport == \E body \in ResolveBodies :
                    used.report < MaxResolveReports /\ CallResult(body)
ResolveReportTagged == \E body \in ResolveBodies :
                          used.report < MaxResolveReports
                              /\ CallResultTagged(body)

NextResolve == ResolveLegacy \/ ResolveReport \/ ResolveReportTagged
SpecResolve == InitCommon /\ [][NextResolve]_vars

\* completed runs whose invocations carry parameters, delivered as legacy
\* bodies and followed by result reports with a negotiation result
MaxFieldInvs == 2       \* tool invocations a payload of SpecFields carries
MaxFieldRuns == 1       \* legacy deliveries in SpecFields
MaxFieldReports == 1    \* result reports in SpecFields

\* parameters that name every outcome-specific field at once
AllParams ==
    [negotiation_result |-> "aligned", client_price |-> "9.99",
     date |-> "2026-01-10", time |-> "10:00", notes |-> "call back",
     name |-> "Luis", reason |-> "no interest", message |-> "bye"]

\* the invocations: a name, its parameters and its response
FieldInvocations ==
    {[name |-> "record_price_expectation",
      params |-> [negotiation_result |-> "negotiable", client_price |-> "1.20"],
      response |-> EmptyObj],
     [name |-> "record_price_expectation",
      params |-> [negotiation_result |-> "maybe"], response |-> EmptyObj],
     [name |-> "record_price_expectation",
      params |-> EmptyObj, response |-> [negotiation_result |-> "aligned"]],
     [name |-> "schedule_callback",
      params |-> [date |-> "2026-02-01", time |-> "09:30", notes |-> "after 9"],
      response |-> EmptyObj],
     [name |-> "request_decision_maker_contact",
      params |-> [name |-> "Marta"], response |-> EmptyObj],
     [name |-> "close_polite",
      params |-> [reason |-> "has supplier"], response |-> EmptyObj],
     [name |-> "close_polite",
      params |-> [message |-> "goodbye"], response |-> EmptyObj],
     [name |-> "check_inventory", params |-> AllParams, response |-> AllParams],
     [name |-> "escalate_to_commercial", params |-> AllParams,
      response |-> EmptyObj]}

\* an invocation as a session message, or as a tool_call event
FieldMessage(inv) ==
    [type |-> "tool_call", tool_name |-> inv.name,
     input_parameters |-> inv.params, response |-> inv.response]
FieldEvent(inv) ==
    [type |-> "tool_call", tool_name |-> inv.name,
     parameters |-> inv.params, response |-> inv.response]

\* the completed run with the first invocation in the session messages and
\* the later ones in the events
FieldRun(invs) ==
    LET base == [id |-> "r1", status |-> "completed", timestamp |-> 1000,
                 metadata |-> [phone_number |-> "+34600000000"]]
        withS == IF Len(invs) = 0 THEN base
                 ELSE Spread(base, [sessions |->
                                       << [messages |-> << FieldMessage(invs[1]) >>] >>])
    IN  IF Len(invs) < 2 THEN withS
        ELSE Spread(withS, [events |-> [i \in 1..(Len(invs) - 1) |->
                                           FieldEvent(invs[i + 1])]])

FieldInputs ==
    {FieldRun(invs) :
        invs \in UNION {[1..n -> FieldInvocations] : n \in 0..MaxFieldInvs}}

FieldReports ==
    {[phone |-> "+34600000000", outcome |-> "price_recorded"],
     [phone |-> "+34600000000", outcome |-> "price_recorded",
      negotiation_result |-> "out_of_market", client_price |-> "1.35"],
     [phone |-> "+34600000000", outcome |-> "price_recorded",
      negotiation_result |-> "maybe"],
     [phone |-> "+34600000000", tool_called |-> "close_polite",
      negotiation_result |-> "", close_reason |-> "no interest"]}

\* the run that is delivered is chosen at the start
InitFields ==
    /\ webhookStore = <<>>
    /\ pendingCallStore = <<>>
    /\ now = 0
    /\ handlers = <<>>
    /\ regs = 0
    /\ ticks = 0
    /\ used = [webhook |-> 0, legacy |-> 0, report |-> 0]
    /\ last = [op |-> "none"]
    /\ claimLog = <<>>
    /\ run \in FieldInputs
    /\ parsed = <<>>
    /\ order = <<>>

\* the delivery of the run, then reports to either call-result route
NextFields ==
    \/ used.legacy < MaxFieldRuns /\ WebhookLegacy(run)
    \/ \E body \in FieldReports :
          used.report < MaxFieldReports /\ CallResult(body)
    \/ \E body \in FieldReports :
          used.report < MaxFieldReports /\ CallResultTagged(body)
SpecFields == InitFields /\ [][NextFields]_vars

\* the run list alone: legacy deliveries and GET /api/webhook
MaxListRuns == 3        \* legacy deliveries in SpecList

ListLegacy == \E body \in StoreBodies :
                 used.legacy < MaxListRuns /\ WebhookLegacy(body)
StoreList == ListRuns

NextList == ListLegacy \/ StoreList
SpecList == InitCommon /\ [][NextList]_vars

(***************************************************************************)
(* The system: pre-call registrations, webhook deliveries, result reports  *)
(***************************************************************************)
Init ==
    /\ webhookStore = <<>>
    /\ pendingCallStore = <<>>
    /\ now = 0
    /\ handlers = [h \in Handlers |-> Idle]
    /\ regs = 0
    /\ ticks = 0
    /\ used = [webhook |-> 0, legacy |-> 0, report |-> 0]
    /\ last = [op |-> "none"]
    /\ claimLog = <<>>
    /\ run = <<>>
    /\ parsed = <<>>
    /\ order = <<>>

Register == \E c \in MainPendingInputs : regs < MaxRegs /\ PreCall(c)
Tick == ticks < MaxTicks /\ Advance(DefaultTTL + 1)
Receive == \E h \in Handlers, ev \in Events :
              used.webhook < MaxWebhooks /\ WebhookReceive(h, ev)
ReceiveNoRunId == \E ev \in NoRunIdEvents :
                     used.webhook < MaxWebhooks /\ WebhookNoRunId(ev)
Resume == \E h \in Handlers :
              /\ handlers[h].pc = "fetching"
              /\ \E net \in MainNets(handlers[h].ev) : WebhookResume(h, net)
Legacy == \E body \in LegacyBodies : used.legacy < MaxLegacy /\ WebhookLegacy(body)
Report == \E phone \in ReportPhones, outcome \in ReportOutcomes :
              used.report < MaxReports
                  /\ CallResult([phone |-> phone, outcome |-> outcome])

Next == Register \/ Tick \/ Receive \/ Resume \/ Legacy \/ Report
Spec == Init /\ [][Next]_vars

\* legacy deliveries of completed runs whose tool invocations sit in the
\* session messages
MaxLegacyRuns == 2    \* legacy deliveries in SpecLegacy

LegacyNames ==
    {"record_qualified_lead", "escalate_to_commercial", "schedule_callback",
     "check_inventory"}
LegacyInputs ==
    {BuildRun("completed", invs) :
        invs \in UNION {[1..n -> [name : LegacyNames, enc : MessageEncodings]] :
                           n \in 0..MaxInvs}}

\* the bodies delivered besides the one under test: the completed run r2 of
\* one qualified-lead message, and run r1 while it was running
LegacySeeds ==
    {[id |-> "r2", status |-> "completed",
      sessions |-> << [messages |-> << [type |-> "tool_call",
                                        tool_name |-> "record_qualified_lead",
                                        input_parameters |-> EmptyObj] >>] >>],
     [run |-> [id |-> "r1", status |-> "running", timestamp |-> 500,
               sessions |-> << [messages |-> << [type |-> "tool_call",
                                                 tool_name |-> "close_polite"],
                                                [role |-> "tool",
                                                 name |-> "report_voicemail"] >>,
                                to_number |-> "+34600000000"] >>]]}

InitLegacy ==
    /\ webhookStore = <<>>
    /\ pendingCallStore = <<>>
    /\ now = 0
    /\ handlers = <<>>
    /\ regs = 0
    /\ ticks = 0
    /\ used = [webhook |-> 0, legacy |-> 0, report |-> 0]
    /\ last = [op |-> "none"]
    /\ claimLog = <<>>
    /\ run \in LegacyInputs
    /\ parsed = <<>>
    /\ order = <<>>

LegacyDeliver == \E body \in {run} \cup LegacySeeds :
                    used.legacy < MaxLegacyRuns /\ WebhookLegacy(body)

NextLegacy == LegacyDeliver
SpecLegacy == InitLegacy /\ [][NextLegacy]_vars

\* the deliveries without a correlation id, among registrations and legacy
\* deliveries that have one
MaxNoIdRegs == 2      \* pre-call registrations in SpecNoId
MaxNoIdRuns == 2      \* legacy deliveries in SpecNoId
MaxNoIdEvents == 1    \* CloudEvents deliveries in SpecNoId

NoIdBodies ==
    {[status |-> "completed", timestamp |-> 1000,
      sessions |-> << [messages |-> << [type |-> "tool_call",
                                        tool_name |-> "close_polite"] >>,
                       phone_numbers |-> [to |-> "+34600000000"]] >>],
     [data |-> [status |-> "running", metadata |-> [nombre |-> "Eva"]]],
     [id |-> "", status |-> "failed"]}

NoIdRegister == \E c \in MainPendingInputs : regs < MaxNoIdRegs /\ PreCall(c)
NoIdLegacy == \E body \in LegacyBodies \cup NoIdBodies :
                 used.legacy < MaxNoIdRuns /\ WebhookLegacy(body)
NoIdEvent == \E ev \in NoRunIdEvents :
                used.webhook < MaxNoIdEvents /\ WebhookNoRunId(ev)

NextNoId == NoIdRegister \/ NoIdLegacy \/ NoIdEvent
SpecNoId == Init /\ [][NextNoId]_vars

\* CloudEvents deliveries against an upstream API that fails in every way
MaxDegradeRegs == 1      \* pre-call registrations in SpecDegrade
MaxDegradeEvents == 1    \* CloudEvents deliveries in SpecDegrade

\* a 2xx body on which parseRun throws: the arguments are not JSON
BadBody ==
    [status |-> "completed", timestamp |-> 1000,
     events |-> << [integration_name |-> "AI",
                    output |-> [response |-> [function_call |->
                        [name |-> "schedule_callback", arguments |-> "{date:"]]]] >>]

GoodBody ==
    [session |-> [status |-> "completed", timestamp |-> 1000,
                  completed_at |-> 61000,
                  sessions |-> << [to_number |-> "+34600000001",
                                   messages |-> << [role |-> "tool",
                                                    name |-> "report_voicemail"] >>] >>]]

\* every URL fails alike but one, which fails in any way or answers
DegradeNets(ev) ==
    LET n == Len(urlsToTry(ev.run_id, ev.session_id))
    IN  {[apiKey |-> FALSE, answers |-> [i \in 1..n |-> Ok200(GoodBody)]]}
        \cup
        {[apiKey |-> TRUE, answers |-> [i \in 1..n |-> IF i = k THEN a ELSE f]] :
            k \in 1..n, f \in {NetError, NotOk},
            a \in {NetError, NotOk, Ok200(BadBody), Ok200(GoodBody)}}

DegradeRegister == \E c \in MainPendingInputs :
                      regs < MaxDegradeRegs /\ PreCall(c)
DegradeReceive == \E h \in Handlers, ev \in Events :
                     used.webhook < MaxDegradeEvents /\ WebhookReceive(h, ev)
DegradeResume == \E h \in Handlers :
                    /\ handlers[h].pc = "fetching"
                    /\ \E net \in DegradeNets(handlers[h].ev) : WebhookResume(h, net)

NextDegrade == DegradeRegister \/ DegradeReceive \/ DegradeResume
SpecDegrade == Init /\ [][NextDegrade]_vars

\* the pre-call and CloudEvents requests alone
NextHooks == Register \/ Receive \/ Resume
SpecHooks == Init /\ [][NextHooks]_vars

\* the claim of a pending contact: registrations, CloudEvents deliveries of
\* every status and legacy deliveries
MaxClaimRegs == 1      \* pre-call registrations in SpecClaim
MaxClaimEvents == 1    \* CloudEvents deliveries in SpecClaim
MaxClaimRuns == 1      \* legacy deliveries in SpecClaim

\* status.current of the events: unknown is what the route reads when the
\* event carries no status
ClaimCurrents == Currents \cup {"unknown"}
ClaimEvents ==
    {[run_id |-> "r1", session_id |-> "s1", current |-> c, time |-> 1000,
      updated_at |-> 61000] : c \in ClaimCurrents}

ClaimRegister == \E c \in PendingInputs : regs < MaxClaimRegs /\ PreCall(c)
ClaimReceive == \E h \in Handlers, ev \in ClaimEvents :
                   used.webhook < MaxClaimEvents /\ WebhookReceive(h, ev)
ClaimResume == \E h \in Handlers :
                  /\ handlers[h].pc = "fetching"
                  /\ \E net \in MainNets(handlers[h].ev) : WebhookResume(h, net)
ClaimLegacy == \E body \in LegacyBodies :
                  used.legacy < MaxClaimRuns /\ WebhookLegacy(body)

NextClaim == ClaimRegister \/ ClaimReceive \/ ClaimResume \/ ClaimLegacy
SpecClaim == Init /\ [][NextClaim]_vars

\* every writer of the run store: CloudEvents deliveries, legacy deliveries
\* and result reports
MaxStatusEvents == 1     \* CloudEvents deliveries in SpecStatus
MaxStatusRuns == 1       \* legacy deliveries in SpecStatus
MaxStatusReports == 1    \* result reports in SpecStatus

StatusBodies ==
    {[id |-> "r3", status |-> "running", timestamp |-> 500,
      metadata |-> [phone_number |-> "+34600000000"],
      events |-> << [type |-> "tool_call", tool_name |-> "schedule_callback"] >>],
     [run |-> [id |-> "r2", status |-> "queued", timestamp |-> 3000,
               metadata |-> [phone_number |-> "+34600000001"]]],
     [id |-> "r3", timestamp |-> 1500,
      sessions |-> << [to_number |-> "+34600000000"] >>]}

StatusReports ==
    {[phone |-> "+34600000000", outcome |-> "escalated"],
     [phone |-> "+34600000001", tool_called |-> "report_voicemail"],
     [phone |-> "+34600000000", outcome |-> "in_progress",
      tool_called |-> "constructor"]}

\* events of run r1: in progress, completed, and without status
StatusEvents == {ev \in ClaimEvents : ev.current # "failed"}

\* the upstream API out of reach, or answering with a run that is running
\* or with one that is not
StatusNets(ev) ==
    {AllDown(ev)}
        \cup {FirstAnswers(ev, d) : d \in {r \in Responses : Has(r, "status")}}

\* a CloudEvents delivery up to its fetch, its resumption, a legacy delivery,
\* and a report to either call-result route
NextStatus ==
    \/ \E h \in Handlers, ev \in StatusEvents :
          used.webhook < MaxStatusEvents /\ WebhookReceive(h, ev)
    \/ \E h \in Handlers :
          /\ handlers[h].pc = "fetching"
          /\ \E net \in StatusNets(handlers[h].ev) : WebhookResume(h, net)
    \/ \E body \in StatusBodies :
          used.legacy < MaxStatusRuns /\ WebhookLegacy(body)
    \/ \E body \in StatusReports :
          used.report < MaxStatusReports /\ CallResult(body)
    \/ \E body \in StatusReports :
          used.report < MaxStatusReports /\ CallResultTagged(body)
SpecStatus == Init /\ [][NextStatus]_vars

\* CloudEvents deliveries answered by the run URLs or by a session URL
MaxIdentityRegs == 1      \* pre-call registrations in SpecIdentity
MaxIdentityEvents == 2    \* CloudEvents deliveries in SpecIdentity

\* the body a session URL answers with: the session, under its own id
SessionBody ==
    [session |-> [id |-> "s1", status |-> "completed", timestamp |-> 1000,
                  completed_at |-> 61000,
                  messages |-> << [type |-> "tool_call",
                                   tool_name |-> "close_polite"] >>]]

\* the upstream API out of reach, answering the first run URL with a run
\* that carries no id, or answering only /api/v2/sessions/{sessionId}
IdentityNets(ev) ==
    LET n == Len(urlsToTry(ev.run_id, ev.session_id))
    IN  {AllDown(ev),
         FirstAnswers(ev, CHOOSE d \in Responses : Get(d, "status") = "running"),
         [apiKey |-> TRUE,
          answers |-> [i \in 1..n |-> IF i = 4 /\ n = 6 THEN Ok200(SessionBody)
                                      ELSE NotOk]]}

\* a registration, a CloudEvents delivery up to its fetch, its resumption
NextIdentity ==
    \/ \E c \in PendingInputs : regs < MaxIdentityRegs /\ PreCall(c)
    \/ \E h \in Handlers, ev \in Events :
          used.webhook < MaxIdentityEvents /\ WebhookReceive(h, ev)
    \/ \E h \in Handlers :
          /\ handlers[h].pc = "fetching"
          /\ \E net \in IdentityNets(handlers[h].ev) : WebhookResume(h, net)
SpecIdentity == Init /\ [][NextIdentity]_vars

\* webhook handlers overlapping at their fetch, no call registered
MaxRaceEvents == 2    \* CloudEvents deliveries in SpecRace

RaceReceive == \E h \in Handlers, ev \in Events :
                  used.webhook < MaxRaceEvents /\ WebhookReceive(h, ev)
RaceResume == \E h \in Handlers :
                 /\ handlers[h].pc = "fetching"
                 /\ \E net \in MainNets(handlers[h].ev) : WebhookResume(h, net)

NextRace == RaceReceive \/ RaceResume
SpecRace == Init /\ [][NextRace]_vars

(***************************************************************************)
(* Properties of the pending store                                         *)
(***************************************************************************)
\* the age, at the last pop, of entry i of the store the pop started from
PopAge(i) == last.at - last.before[i].storedAt

\* C5: with ttl = 120000 ms, a pop that finds an entry aged 119999 ms claims an
\* entry, and claims that very entry when no other entry is as recent; an
\* entry aged 120001 ms or more is never claimed and is still in the pending
\* store after the pop.
C5_TTLBoundary ==
    last.op = "pop" =>
        LET b == last.before
        IN  /\ \A i \in 1..Len(b) : PopAge(i) = 119999 =>
                /\ last.idx # 0
                /\ PopAge(last.idx) <= 119999
                /\ (\A j \in 1..Len(b) : j # i => PopAge(j) > 119999)
                        => last.idx = i
            /\ \A i \in 1..Len(b) : PopAge(i) >= 120001 =>
                /\ last.idx # i
                /\ \E k \in 1..Len(pendingCallStore) : pendingCallStore[k] = b[i]

\* a pop that claimed an entry aged 119999 ms and left one aged 120001 ms
C5_Witness ==
    /\ last.op = "pop"
    /\ last.idx # 0
    /\ PopAge(last.idx) = 119999
    /\ \E i \in 1..Len(last.before) :
          /\ PopAge(i) = 120001
          /\ \E k \in 1..Len(pendingCallStore) : pendingCallStore[k] = last.before[i]

\* C6: a pop returns an entry whose age does not exceed the ttl and whose
\* storedAt is the greatest among such entries, removes exactly that entry and
\* keeps the others in their order; with no entry within the ttl it returns
\* null and leaves the store as it was.
C6_ClaimSelection ==
    last.op = "pop" =>
        LET b == last.before
            elig == {i \in 1..Len(b) : PopAge(i) <= 120000}
        IN  IF elig = {}
            THEN last.idx = 0 /\ pendingCallStore = b
            ELSE /\ last.idx \in elig
                 /\ \A j \in elig : b[j].storedAt <= b[last.idx].storedAt
                 /\ Len(pendingCallStore) = Len(b) - 1
                 /\ \A j \in 1..Len(pendingCallStore) :
                        pendingCallStore[j] = IF j < last.idx THEN b[j] ELSE b[j + 1]

\* a pop that chose among two entries within the ttl, stored at different
\* instants, with an expired entry in the store as well
C6_Witness ==
    /\ last.op = "pop"
    /\ last.idx # 0
    /\ \E i, j, k \in 1..Len(last.before) :
          /\ PopAge(i) <= 120000
          /\ PopAge(j) <= 120000
          /\ last.before[i].storedAt < last.before[j].storedAt
          /\ PopAge(k) > 120000

\* C8: the pending store never holds more than 20 entries; after a register
\* call its last entry is the one just registered and the entries before it
\* are the most recently inserted entries of the previous store, in order, so
\* that what was dropped is the front of the list.
C8_CapacityBound ==
    /\ Len(pendingCallStore) <= 20
    /\ last.op = "register" =>
          LET b == last.before
              n == Len(pendingCallStore)
          IN  /\ n = (IF Len(b) + 1 > 20 THEN 20 ELSE Len(b) + 1)
              /\ pendingCallStore[n].uid = last.uid
              /\ pendingCallStore[n].storedAt = last.at
              /\ \A j \in 1..(n - 1) :
                    pendingCallStore[j] = b[Len(b) - (n - 1) + j]

\* a register call on a full store that dropped an entry still within the ttl
C8_Witness ==
    /\ last.op = "register"
    /\ Len(last.before) = 20
    /\ Len(pendingCallStore) = 20
    /\ last.at - last.before[1].storedAt <= 120000
    /\ \A k \in 1..20 : pendingCallStore[k].uid # last.before[1].uid

(***************************************************************************)
(* Properties of the classifier                                            *)
(***************************************************************************)
PriorityOutcomes ==
    <<"escalated", "price_recorded", "qualified", "callback", "decision_maker",
      "voicemail", "closed">>

\* the outcome of the first row of the priority table whose tool is in names
FirstRowOutcome(names) ==
    LET hits == {i \in 1..7 : PriorityTools[i] \in names}
    IN  IF hits = {} THEN "unknown"
        ELSE PriorityOutcomes[CHOOSE i \in hits : \A j \in hits : i <= j]

\* C9: for a payload whose status is not running, the outcome parseRun gives
\* is the outcome of the first row of the priority table whose tool is among
\* the extracted tool names, and unknown when no row matches, whatever the
\* order of the names.
C9_OutcomePrecedence ==
    (parsed.done /\ parsed.ok /\ run.status # "running") =>
        parsed.call.outcome = FirstRowOutcome(Range(parsed.call.toolsCalled))

\* schedule_callback extracted before escalate_to_commercial: escalated
C9_Witness ==
    /\ parsed.done
    /\ parsed.ok
    /\ run.status = "completed"
    /\ parsed.call.toolsCalled = <<"schedule_callback", "escalate_to_commercial">>
    /\ parsed.call.outcome = "escalated"

(***************************************************************************)
(* Properties of the run store and of the webhook route                    *)
(***************************************************************************)
ContactFields == {"phone", "contactName", "companyName"}
Upserted == last.op \in {"webhook", "legacy"}

\* C1: when upsertRun is given a record whose phone (contactName,
\* companyName) is empty or absent while the stored record of that id has a
\* non-empty one, the stored field keeps its previous value.
C1_MonotonicEnrichment ==
    (Upserted /\ last.existed) =>
        \A f \in ContactFields :
            (Truthy(Get(last.prev, f)) /\ ~Truthy(Get(last.call, f)))
                => webhookStore[last.call.id][f] = last.prev[f]

\* an upsert without phone or contact name onto a record that has both
C1_Witness ==
    /\ Upserted
    /\ last.existed
    /\ Truthy(last.prev.phone)
    /\ Truthy(Get(last.prev, "contactName"))
    /\ ~Truthy(last.call.phone)
    /\ ~Truthy(Get(last.call, "contactName"))
    /\ webhookStore[last.call.id].phone = last.prev.phone

TerminalStatuses == {"completed", "failed", "canceled"}

\* C2: a stored outcome other than in_progress never becomes in_progress
\* again, and a stored status completed, failed or canceled never becomes
\* running or scheduled again.
C2_ForwardOnly ==
    [][\A id \in DOMAIN webhookStore :
          /\ webhookStore[id].outcome # "in_progress"
                => webhookStore'[id].outcome # "in_progress"
          /\ webhookStore[id].status \in TerminalStatuses
                => webhookStore'[id].status \notin {"running", "scheduled"}]_vars

\* C3: no record receives more than one pending contact: the pops of the
\* webhook route hand at most one pending entry to each record id, so that no
\* later event replaces contact data a claim has applied.
C3_ClaimOncePerRecord ==
    \A i, j \in 1..Len(claimLog) : i # j => claimLog[i].id # claimLog[j].id

\* an absent key reads as undefined
NumFields == {"phaseReached", "duration", "timestamp", "completedAt"}
IsUndefined(v, k) ==
    IF k \in NumFields THEN v = NoNum
    ELSE IF k \in {"toolsCalled", "isDemo"} THEN FALSE
    ELSE v = Undef

FieldEq(a, b, k) ==
    IF k \in DOMAIN a /\ k \in DOMAIN b THEN a[k] = b[k]
    ELSE IF k \in DOMAIN a THEN IsUndefined(a[k], k)
    ELSE IsUndefined(b[k], k)

\* two records agree on every field other than the timestamp
BusinessEq(a, b) ==
    \A k \in ((DOMAIN a) \cup (DOMAIN b)) \ {"timestamp"} : FieldEq(a, b, k)

\* C4: a CloudEvents delivery identical to the one ingested just before it
\* (same body, same upstream answer) leaves the stored record as the first
\* ingestion left it, in every field but the timestamp.
C4_IdempotentIngestion ==
    (last.op = "webhook" /\ last.repeat) =>
        /\ last.existed
        /\ BusinessEq(webhookStore[last.call.id], last.prev)

\* C7: no pending entry is handed out twice: the entries the webhook handlers
\* have claimed are pairwise distinct, and none of them is still in the
\* pending store.
C7_ConsumedOnce ==
    /\ \A i, j \in 1..Len(claimLog) : i # j => claimLog[i].uid # claimLog[j].uid
    /\ \A i \in 1..Len(claimLog), k \in 1..Len(pendingCallStore) :
          pendingCallStore[k].uid # claimLog[i].uid

\* two handlers in flight at once, each of which claimed a pending entry
C7_Witness ==
    /\ Len(claimLog) = 2
    /\ claimLog[1].others # {}
    /\ claimLog[1].uid # claimLog[2].uid

\* C10: a record the webhook route builds from a payload, by parseRun or from
\* the CloudEvents data alone, has outcome in_progress whenever its status
\* is running.
C10_RunningInProgress ==
    Upserted => (last.call.status = "running" => last.call.outcome = "in_progress")

\* a running record built by parseRun from a payload that carries a tool call
C10_Witness ==
    /\ last.op = "webhook"
    /\ last.call.status = "running"
    /\ Len(last.call.toolsCalled) > 0
    /\ last.call.outcome = "in_progress"

(***************************************************************************)
(* Properties of the result reports and of the run list                    *)
(***************************************************************************)
Reported == last.op = "report" /\ last.ok

C12_ReportSetsOutcome ==
    (Reported /\ last.matched /\ Get(last.body, "outcome") \in ValidOutcomes) =>
        /\ webhookStore[last.id].outcome = last.body.outcome
        /\ webhookStore[last.id].status = "completed"

\* outcome escalated reported for a record that was running
C12_Witness ==
    /\ Reported
    /\ last.matched
    /\ Get(last.body, "outcome") = "escalated"
    /\ last.before[last.id].status = "running"
    /\ last.before[last.id].outcome = "in_progress"
    /\ webhookStore[last.id].outcome = "escalated"
    /\ webhookStore[last.id].status = "completed"

KnownTools == Range(PriorityTools)
KnownTags ==
    {"escalated_to_commercial", "qualified_lead", "scheduled_callback",
     "decision_maker_contact_provided", "voicemail", "closed_no_interest",
     "closed_out_of_market", "closed_other", "other"}

\* the body names an outcome the route knows: by its outcome field, by a
\* classification tag where the route has the tag table, or by tool_called
MapsToOutcome(route, body) ==
    \/ Get(body, "outcome") \in ValidOutcomes
    \/ route = "call-result-tagged" /\ Get(body, "outcome") \in KnownTags
    \/ Get(body, "tool_called") \in KnownTools

\* C13: a report without a phone, or whose outcome field and tool_called both
\* name no known outcome, is answered with an error and leaves the store as
\* it was; a report that is accepted carries one of the seven outcomes, never
\* in_progress or unknown.
C13_ReportValidation ==
    last.op = "report" =>
        /\ (~Truthy(ReportPhone(last.body))
                \/ ~MapsToOutcome(last.route, last.body))
              => (~last.ok /\ webhookStore = last.before)
        /\ last.ok => last.outcome \in ValidOutcomes

\* C17: the list holds exactly the stored records, one per id, the store is
\* as it was, and the list is in descending order of timestamp: of any two
\* records of the list that carry a timestamp, the earlier one's is not less
\* than the later one's.
C17_ListSortedDesc ==
    last.op = "list" =>
        /\ webhookStore = last.before
        /\ Len(last.runs) = Cardinality(DOMAIN webhookStore)
        /\ \A k \in DOMAIN webhookStore :
              \E i \in 1..Len(last.runs) : last.runs[i] = webhookStore[k]
        /\ \A i, j \in 1..Len(last.runs) :
              (i < j /\ last.runs[i].timestamp # NoNum
                     /\ last.runs[j].timestamp # NoNum)
                  => last.runs[i].timestamp >= last.runs[j].timestamp

(***************************************************************************)
(* Properties of the deliveries                                            *)
(***************************************************************************)
\* the delivery observed in l carried no correlation id: a legacy body whose
\* run has no id, or a CloudEvents body without data.run_id
WithoutId(l) ==
    \/ "body" \in DOMAIN l /\ l.op # "report"
          /\ ~Truthy(Get(UnwrapLegacy(l.body), "id"))
    \/ "ev" \in DOMAIN l /\ ~Truthy(l.ev.run_id)

\* C14: a webhook delivery without correlation id is answered with the
\* no-correlation-id note, and the step that handles it changes neither the
\* run store nor the pending store and starts no upstream fetch.
C14_NoCorrelationId ==
    [][(used' # used /\ WithoutId(last')) =>
          /\ last'.op = "no_run_id"
          /\ webhookStore' = webhookStore
          /\ order' = order
          /\ pendingCallStore' = pendingCallStore
          /\ handlers' = handlers]_vars

\* a legacy delivery without id met a run store and a pending store that both
\* hold entries
C14_Witness ==
    /\ last.op = "no_run_id"
    /\ "body" \in DOMAIN last
    /\ DOMAIN webhookStore # {}
    /\ Len(pendingCallStore) > 0

\* the URLs of a delivery that answered with a body parseRun accepts
Answering(net) ==
    {i \in 1..Len(net.answers) :
        net.answers[i].net = "200" /\ net.answers[i].data # BadBody}

Decodable(r) ==
    {i \in 1..Len(Arr(r, "events")) :
        LET resp == Obj(Obj(r.events[i], "output"), "response")
        IN  Has(resp, "function_call") =>
               Get(resp.function_call, "arguments") \in {Undef, "", "{}"}}

\* C16: extractToolCalls returns a list and does not throw, whatever the
\* payload; each tool message and each event whose arguments decode gives one
\* invocation of the list, an event whose arguments do not decode gives none,
\* and a payload without sessions and events gives the empty list.
C16_ExtractNeverRaises ==
    parsed.done =>
        /\ parsed.ok
        /\ Len(parsed.calls) =
              (IF Has(run, "sessions") THEN Len(run.sessions[1].messages) ELSE 0)
                  + Cardinality(Decodable(run))
        /\ (~Has(run, "sessions") /\ ~Has(run, "events")) => parsed.calls = <<>>

(***************************************************************************)
(* Properties of the legacy ingestion                                      *)
(***************************************************************************)
IsToolMessage(msg) == Get(msg, "type") = "tool_call" \/ Get(msg, "role") = "tool"

\* the names of the tool messages of the first session, in their order
ToolMessageNames(r) ==
    LET tools == SelectSeq(Arr(r, "sessions")[1].messages, IsToolMessage)
    IN  [i \in 1..Len(tools) |->
            IF Has(tools[i], "tool_name") THEN tools[i].tool_name
            ELSE IF Has(tools[i], "function") THEN tools[i].function
            ELSE tools[i].name]

\* C18: after the legacy delivery of a completed run with an id and session
\* messages, the record stored under that id has the names of the tool
\* messages, in their order, as toolsCalled, the outcome of the first row of
\* the priority table among them, and the phase the classifier gives them;
\* for the single tool record_qualified_lead that is outcome qualified,
\* phase 4.
C18_LegacyIngestion ==
    (last.op = "legacy"
        /\ Get(UnwrapLegacy(last.body), "status") = "completed"
        /\ Has(UnwrapLegacy(last.body), "sessions")) =>
        LET r == UnwrapLegacy(last.body)
            names == ToolMessageNames(r)
        IN  /\ r.id \in DOMAIN webhookStore
            /\ webhookStore[r.id].id = r.id
            /\ webhookStore[r.id].status = "completed"
            /\ webhookStore[r.id].toolsCalled = names
            /\ webhookStore[r.id].outcome = FirstRowOutcome(Range(names))
            /\ webhookStore[r.id].phaseReached = inferPhase(names)
            /\ names = <<"record_qualified_lead">> =>
                  /\ webhookStore[r.id].outcome = "qualified"
                  /\ webhookStore[r.id].phaseReached = 4

\* the completed run of one record_qualified_lead message, delivered for an
\* id whose stored record was running with other tools
C18_Witness ==
    /\ last.op = "legacy"
    /\ last.existed
    /\ last.prev.status = "running"
    /\ Len(last.prev.toolsCalled) = 2
    /\ Get(UnwrapLegacy(last.body), "status") = "completed"
    /\ webhookStore[last.call.id].toolsCalled = <<"record_qualified_lead">>
    /\ webhookStore[last.call.id].outcome = "qualified"
    /\ webhookStore[last.call.id].phaseReached = 4

(***************************************************************************)
(* Properties of concurrent upserts                                        *)
(***************************************************************************)
\* the step is the second half of a webhook handler: its upsert
ResumeStep == \E h \in Handlers : handlers[h].pc = "fetching" /\ handlers'[h].pc = "idle"

\* the record a failed event for run id gives when the upstream API is down
FailedCall(id) ==
    FallbackCall([run_id |-> id, session_id |-> Undef, current |-> "failed",
                  time |-> NoNum, updated_at |-> NoNum], now)

RunIds == {"r1", "r2", "s1"}

\* C19: the upsert of a webhook handler leaves the stored record of every
\* other id as it was, and on the store it meets it commutes with the upsert
\* of a record of any other id: the two orders give the same store.
C19_IndependentIds ==
    [][ResumeStep =>
          /\ \A id \in DOMAIN webhookStore :
                id # last'.call.id =>
                    /\ id \in DOMAIN webhookStore'
                    /\ webhookStore'[id] = webhookStore[id]
          /\ \A id \in RunIds \ {last'.call.id} :
                upsertRun(upsertRun(webhookStore, last'.call), FailedCall(id))
                    = upsertRun(upsertRun(webhookStore, FailedCall(id)), last'.call)]_vars

\* two handlers in flight at once have upserted two different ids, the second
\* one with a phone, next to a stored record that has none
C19_Witness ==
    /\ last.op = "webhook"
    /\ Len(last.overlapped) = 1
    /\ last.overlapped[1] # last.call.id
    /\ last.overlapped[1] \in DOMAIN webhookStore
    /\ Truthy(last.call.phone)
    /\ ~Truthy(webhookStore[last.overlapped[1]].phone)

\* the merge of upsertRun, on the existing record (<<>> when there is none)
Merged(existing, call) ==
    [k \in (DOMAIN existing) \cup (DOMAIN call) |->
        IF k \in ContactFields /\ k \in DOMAIN existing /\ ~Truthy(Get(call, k))
        THEN existing[k]
        ELSE IF k \in DOMAIN call THEN call[k] ELSE existing[k]]

RecordEq(a, b) == \A k \in (DOMAIN a) \cup (DOMAIN b) : FieldEq(a, b, k)

\* C20: whatever other handlers ran while a handler was suspended at its
\* fetch, its upsert merges its record into the record the store holds at
\* that moment, so that the stored record is the result of the merges made so
\* far in the order the handlers resumed.
C20_SameIdRace ==
    [][ResumeStep =>
          LET id == last'.call.id
              current == IF id \in DOMAIN webhookStore THEN webhookStore[id]
                         ELSE EmptyObj
          IN  RecordEq(webhookStore'[id], Merged(current, last'.call))]_vars

\* a handler resumed after another handler for the same id had written a
\* phone while it was suspended, and its own record has no phone
C20_Witness ==
    /\ last.op = "webhook"
    /\ last.overlapped = <<last.call.id>>
    /\ last.existed
    /\ Truthy(last.prev.phone)
    /\ ~Truthy(last.call.phone)
    /\ webhookStore[last.call.id].phone = last.prev.phone

(***************************************************************************)
(* Properties of the stored fields                                         *)
(***************************************************************************)
NonContactFields ==
    {"status", "outcome", "phaseReached", "toolsCalled", "duration",
     "timestamp", "completedAt", "negotiationResult", "clientPrice",
     "callbackDate", "callbackTime", "callbackNotes", "decisionMakerName",
     "closeReason"}

\* a.k === b.k, an absent key reading as undefined
SameField(a, b, k) == (k \in DOMAIN a \/ k \in DOMAIN b) => FieldEq(a, b, k)

\* C21: after an upsert onto an id the store already holds, every field of
\* the stored record other than phone, contactName and companyName equals the
\* value the incoming record has for that field.
C21_OverwriteWithLatest ==
    (Upserted /\ last.existed) =>
        \A k \in NonContactFields :
            SameField(webhookStore[last.call.id], last.call, k)

ClosedTags == {"closed_no_interest", "closed_out_of_market", "closed_other", "other"}

\* the classification tags the route of the last report knows
RouteTags == IF last.route = "call-result-tagged" THEN KnownTags ELSE {}

\* what the lookup of tool_called gives, undefined when it gives nothing
ByTool(tool) ==
    IF Truthy(tool) /\ ToolToOutcome(tool) # Undef THEN ToolToOutcome(tool)
    ELSE Undef

\* C22: the outcome a report settles on is its outcome field when that is one
\* of the seven outcomes, whatever tool_called says; otherwise the mapping of
\* the outcome field when that is a classification tag the route knows, closed
\* for the four closing tags; and when the outcome field is neither, and only
\* then, what the lookup of tool_called gives, the report being rejected when
\* it gives nothing.
C22_TagPrecedence ==
    (last.op = "report" /\ Truthy(ReportPhone(last.body))) =>
        LET raw == Get(last.body, "outcome")
            tool == Get(last.body, "tool_called")
            resolved == IF last.ok THEN last.outcome ELSE Undef
        IN  IF raw \in ValidOutcomes THEN resolved = raw
            ELSE IF raw \in RouteTags
            THEN /\ resolved = AITagToOutcome(raw)
                 /\ raw \in ClosedTags => resolved = "closed"
            ELSE resolved = ByTool(tool)

(***************************************************************************)
(* Properties of the phase and of the default classification               *)
(***************************************************************************)
\* the phases the priority table lists for an outcome
PhaseRange(outcome) ==
    CASE outcome = "escalated" -> {5, 6}
      [] outcome = "price_recorded" -> {5}
      [] outcome = "qualified" -> {4}
      [] outcome = "callback" -> {2, 3}
      [] outcome = "decision_maker" -> {1, 2}
      [] outcome = "voicemail" -> {0, 1}
      [] outcome = "closed" -> {2}
      [] OTHER -> {}

\* C23: when the tool names parseRun extracts hold a tool of the priority
\* table, the phaseReached of the record lies in the phase range the table
\* lists for the outcome of the first row whose tool is among the names.
C23_PhaseAgreesWithOutcome ==
    (parsed.done /\ parsed.ok) =>
        LET outcome == FirstRowOutcome(Range(parsed.call.toolsCalled))
        IN  outcome # "unknown" =>
                parsed.call.phaseReached \in PhaseRange(outcome)

\* C24: a record the CloudEvents route builds, from the upstream response by
\* parseRun or from the event alone, whose status is not running and whose
\* tool names hold no tool of the priority table, has outcome unknown and
\* phaseReached 3.
C24_DefaultClassification ==
    (last.op = "webhook"
        /\ last.built.status # "running"
        /\ Range(last.built.toolsCalled) \cap Range(PriorityTools) = {}) =>
            /\ last.built.outcome = "unknown"
            /\ last.built.phaseReached = 3

(***************************************************************************)
(* Properties of the outcome-specific fields                               *)
(***************************************************************************)
NegotiationResults == {"aligned", "negotiable", "out_of_market"}

\* the invocations of a payload, session messages first, as the payload
\* carries them
PayloadInvocations(r) ==
    (IF Has(r, "sessions") THEN r.sessions[1].messages ELSE <<>>)
        \o Arr(r, "events")
InvokedNames(r) ==
    {PayloadInvocations(r)[i].tool_name : i \in 1..Len(PayloadInvocations(r))}

\* the parameters of the first invocation of the tool in the payload
FirstInvocation(r, tool) ==
    LET invs == PayloadInvocations(r)
        i == CHOOSE i \in 1..Len(invs) :
                /\ invs[i].tool_name = tool
                /\ \A j \in 1..(i - 1) : invs[j].tool_name # tool
    IN  invs[i]
InvocationParams(inv) ==
    IF Has(inv, "input_parameters") THEN inv.input_parameters ELSE inv.parameters

\* field f of record c is undefined without an invocation of the tool, and
\* is parameter p of the first invocation of the tool otherwise
FromInvocation(r, c, f, tool, p) ==
    IF tool \in InvokedNames(r)
    THEN c[f] = Get(InvocationParams(FirstInvocation(r, tool)), p)
    ELSE c[f] = Undef

\* C25: the record normalized from a payload has clientPrice and
\* negotiationResult from the record_price_expectation invocation, the
\* callback fields from the schedule_callback one, decisionMakerName from the
\* request_decision_maker_contact one and closeReason from the close_polite
\* one, each undefined when the payload has no such invocation; and
\* negotiationResult, in the normalized record, in the updates of an accepted
\* report and in every stored record, is undefined or one of aligned,
\* negotiable, out_of_market.
C25_FieldsFromDefiningInvocation ==
    /\ last.op = "legacy" =>
          LET r == UnwrapLegacy(last.body)
              c == last.call
          IN  /\ FromInvocation(r, c, "clientPrice", "record_price_expectation",
                                "client_price")
              /\ FromInvocation(r, c, "callbackDate", "schedule_callback", "date")
              /\ FromInvocation(r, c, "callbackTime", "schedule_callback", "time")
              /\ FromInvocation(r, c, "callbackNotes", "schedule_callback", "notes")
              /\ FromInvocation(r, c, "decisionMakerName",
                                "request_decision_maker_contact", "name")
              /\ "close_polite" \notin InvokedNames(r) => c.closeReason = Undef
              /\ "close_polite" \in InvokedNames(r) =>
                    c.closeReason \in
                        {Get(InvocationParams(FirstInvocation(r, "close_polite")), p) :
                            p \in {"reason", "message"}}
              /\ "record_price_expectation" \notin InvokedNames(r) =>
                    c.negotiationResult = Undef
              /\ c.negotiationResult # Undef =>
                    LET inv == FirstInvocation(r, "record_price_expectation")
                    IN  c.negotiationResult \in
                            {Get(InvocationParams(inv), "negotiation_result"),
                             Get(inv.response, "negotiation_result")}
              /\ c.negotiationResult \in NegotiationResults \cup {Undef}
    /\ (last.op = "report" /\ last.ok) =>
          Get(last.updates, "negotiationResult") \in NegotiationResults \cup {Undef}
    /\ \A id \in DOMAIN webhookStore :
          Get(webhookStore[id], "negotiationResult")
              \in NegotiationResults \cup {Undef}

\* a run whose only table tool is record_price_expectation, next to an
\* invocation of another tool that carries a date, a name and a reason
C25_Witness ==
    /\ last.op = "legacy"
    /\ InvokedNames(UnwrapLegacy(last.body))
          = {"check_inventory", "record_price_expectation"}
    /\ last.call.negotiationResult = "negotiable"
    /\ last.call.clientPrice = "1.20"
    /\ last.call.callbackDate = Undef
    /\ last.call.decisionMakerName = Undef
    /\ last.call.closeReason = Undef

(***************************************************************************)
(* Properties of the contact extraction                                    *)
(***************************************************************************)
ContactSources == <<"metadata", "trigger_data", "input_data">>

\* the value of the first of the aliases that object o carries non-empty
FirstAlias(o, aliases) ==
    IF \E k \in 1..Len(aliases) : Truthy(Get(o, aliases[k]))
    THEN o[aliases[CHOOSE k \in 1..Len(aliases) :
                      /\ Truthy(Get(o, aliases[k]))
                      /\ \A j \in 1..(k - 1) : ~Truthy(Get(o, aliases[j]))]]
    ELSE Undef

\* the value of the aliases in the first of the three sources that has one
FirstSource(r, aliases) ==
    LET has == {s \in 1..3 : FirstAlias(Obj(r, ContactSources[s]), aliases) # Undef}
    IN  IF has = {} THEN Undef
        ELSE FirstAlias(Obj(r, ContactSources[CHOOSE s \in has :
                                                 \A q \in has : s <= q]),
                        aliases)

\* C26: the contact name of the normalized record is the one of the first of
\* metadata, trigger_data and input_data that carries a contact-name alias,
\* and the company name the one of the first that carries a company-name
\* alias; a source that is present without the alias is passed over.
C26_ContactSourceFallthrough ==
    (parsed.done /\ parsed.ok) =>
        /\ parsed.call.contactName
              = FirstSource(run, <<"contact_name", "nombre", "name">>)
        /\ parsed.call.companyName
              = FirstSource(run, <<"company_name", "empresa", "company">>)

(***************************************************************************)
(* Properties of the claim of a pending contact                            *)
(***************************************************************************)
RegisterStep == regs' = regs + 1

\* C27: a step other than a registration changes the pending store only when
\* it is the second half of a CloudEvents handler whose event has
\* status.current in-progress and whose record, as built for the event, lacks
\* the phone or the contact name, and then it removes one entry; the events
\* of any other status and the legacy deliveries leave the pending store as
\* it was.
C27_ClaimGuard ==
    [][(~RegisterStep /\ pendingCallStore' # pendingCallStore) =>
          /\ ResumeStep
          /\ last'.ev.current = "in-progress"
          /\ ~Truthy(last'.built.phone) \/ ~Truthy(Get(last'.built, "contactName"))
          /\ Len(pendingCallStore') = Len(pendingCallStore) - 1]_vars

\* a completed event whose record has neither phone nor contact name met a
\* pending entry and left it in the store
C27_Witness ==
    /\ last.op = "webhook"
    /\ last.ev.current = "completed"
    /\ ~Truthy(last.built.phone)
    /\ ~Truthy(Get(last.built, "contactName"))
    /\ Len(last.before) > 0
    /\ pendingCallStore = last.before

(***************************************************************************)
(* Properties of every stored record                                       *)
(***************************************************************************)
\* C28: whatever CloudEvents deliveries, legacy deliveries and result reports
\* have been handled, every stored record has status running exactly when
\* its outcome is in_progress.
C28_RunningIffInProgress ==
    \A id \in DOMAIN webhookStore :
        (Get(webhookStore[id], "status") = "running")
            <=> (webhookStore[id].outcome = "in_progress")

\* a report has completed a record that was running, while another record is
\* still running and in progress
C28_Witness ==
    /\ last.op = "report"
    /\ last.ok
    /\ last.matched
    /\ last.before[last.id].status = "running"
    /\ last.before[last.id].outcome = "in_progress"
    /\ webhookStore[last.id].status = "completed"
    /\ \E id \in DOMAIN webhookStore :
          /\ id # last.id
          /\ webhookStore[id].status = "running"
          /\ webhookStore[id].outcome = "in_progress"

(***************************************************************************)
(* Properties of the record identity                                       *)
(***************************************************************************)
\* C29: once a CloudEvents delivery with data.run_id = r has been handled,
\* the store holds a record under key r whose id is r, whether the record
\* came from the event alone or from an upstream response; and every key of
\* the store is the id of the record under it.
C29_IdentityStability ==
    /\ last.op = "webhook" =>
          /\ last.ev.run_id \in DOMAIN webhookStore
          /\ webhookStore[last.ev.run_id].id = last.ev.run_id
    /\ \A k \in DOMAIN webhookStore : webhookStore[k].id = k

\* C30: when a webhook request claims a pending contact, each of phone,
\* contactName and companyName of the record is the pending contact's value
\* if that value is non-empty, also over a non-empty value the upstream
\* response gave, and the record's own value otherwise; every other field of
\* the record is as it was before the claim.
ClaimedFields == {"phone", "contactName", "companyName"}
C30_MergePrecedence ==
    (last.op = "webhook" /\ last.idx # 0) =>
        LET pending == last.before[last.idx]
        IN  /\ \A f \in ClaimedFields :
                  Get(last.call, f) = IF Truthy(Get(pending, f))
                                      THEN Get(pending, f)
                                      ELSE Get(last.built, f)
            /\ \A f \in ((DOMAIN last.call) \cup (DOMAIN last.built))
                            \ ClaimedFields :
                  SameField(last.built, last.call, f)

\* a claim replaced the phone of the upstream response by another one, that
\* of the pending contact
C30_Witness ==
    /\ last.op = "webhook"
    /\ last.idx # 0
    /\ last.net.apiKey
    /\ Truthy(last.built.phone)
    /\ Truthy(last.before[last.idx].phone)
    /\ last.before[last.idx].phone # last.built.phone
    /\ last.call.phone = last.before[last.idx].phone
    /\ webhookStore[last.call.id].phone = last.call.phone

====
